---- MODULE Spec2Model ----
(***************************************************************************)
(* Router -> Planner -> Dispatcher pipeline of the real-estate chatbot     *)
(* (scripts/agents/router.py, scripts/agents/planner.py, scripts/chat.py,  *)
(* scripts/agents/memory.py).                                              *)
(*                                                                         *)
(* JSON values are encoded as strings: a string value is itself, and the   *)
(* tokens below stand for the values of the other JSON types.              *)
(***************************************************************************)
EXTENDS Integers, Sequences, FiniteSets, TLC

VARIABLES pc, user_input, episodic, shortterm, prefs, llm, result, query_type,
          intents, slots, tasks, idx, responses, response, invoked, llmCalls,
          error, turns, arg, ret, found, built, saves, redis_available,
          redis_client, hist, chatbots

vars == <<pc, user_input, episodic, shortterm, prefs, llm, result, query_type,
          intents, slots, tasks, idx, responses, response, invoked, llmCalls,
          error, turns, arg, ret, found, built, saves, redis_available,
          redis_client, hist, chatbots>>

(* ---------------------------------------------------------------------- *)
(* Bounds                                                                  *)
(* ---------------------------------------------------------------------- *)
MaxTextLen == 3
MaxIntents == 2
MaxSlotKeys == 1
MaxPlanIntents == 2
MaxPlanSlotKeys == 2
MaxTurns == 2
MaxResults == 2

(* ---------------------------------------------------------------------- *)
(* JSON values                                                             *)
(* ---------------------------------------------------------------------- *)
JNull == "null"
JTrue == "true"
JFalse == "false"
JZero == "0"
JText == "text"
JObj == "{..}"

Range(s) == {s[i] : i \in 1..Len(s)}

SeqsUpTo(S, n) == UNION {[1..k -> S] : k \in 0..n}

\* Python truth value of a decoded JSON value.
Truthy(v) == v \notin {JFalse, JNull, JZero, ""}

\* Python hash(): dict and list values raise TypeError.
Hashable(v) == v # JObj


(* ---------------------------------------------------------------------- *)
(* Completion-service replies                                              *)
(* A reply is a text over three tokens: an opening brace, a closing brace  *)
(* and "x", a run of characters holding no brace.  `body` says what a run  *)
(* "x" between braces holds: the members of a JSON object, or not JSON.    *)
(* ---------------------------------------------------------------------- *)
MISSING == "<missing>"

Tokens == {"{", "}", "x"}

EmptyMap == [k \in {} |-> ""]

NoIntents == [kind |-> "missing", value |-> MISSING, items |-> <<>>]
ScalarIntents(v) == [kind |-> "scalar", value |-> v, items |-> <<>>]
ListIntents(s) == [kind |-> "list", value |-> MISSING, items |-> s]

NoSlots == [kind |-> "missing", map |-> EmptyMap]
MapSlots(m) == [kind |-> "map", map |-> m]
NullSlots == [kind |-> "null", map |-> EmptyMap]
TextSlots == [kind |-> "text", map |-> EmptyMap]

\* json.loads("{}")
EmptyObject == [valid |-> TRUE, in_scope |-> MISSING, intents |-> NoIntents, slots |-> NoSlots]
NotJson == [valid |-> FALSE, in_scope |-> MISSING, intents |-> NoIntents, slots |-> NoSlots]

allowed_intents == {"search_property", "estimate_renovation", "generate_report",
                    "save_preference", "web_research", "general_query"}

SlotKeys == {"location", "num_rooms", "max_price", "property_size_sqft",
             "certificate_keywords", "min_price"}

SlotValues == {JNull, JZero, "v"}

PartialMaps(K, V, n) == UNION {[D -> V] : D \in {E \in SUBSET K : Cardinality(E) <= n}}

DefaultResult == [raised |-> FALSE, err |-> "", in_scope |-> JTrue,
                  intents |-> <<"general_query">>, slots |-> MapSlots(EmptyMap)]

Raised(e) == [raised |-> TRUE, err |-> e, in_scope |-> MISSING,
              intents |-> <<>>, slots |-> NoSlots]

(* ---------------------------------------------------------------------- *)
(* QueryRouter                                                             *)
(* ---------------------------------------------------------------------- *)
\* str.find: index of the first occurrence, -1 when there is none.
Find(text, c) ==
  IF c \in Range(text)
  THEN (CHOOSE i \in 1..Len(text) : text[i] = c /\ \A j \in 1..(i-1) : text[j] # c) - 1
  ELSE -1

\* str.rfind: index of the last occurrence, -1 when there is none.
RFind(text, c) ==
  IF c \in Range(text)
  THEN (CHOOSE i \in 1..Len(text) : text[i] = c /\ \A j \in (i+1)..Len(text) : text[j] # c) - 1
  ELSE -1

\* text[start:end] for 0 <= start and 0 <= end.
Slice(text, start, end) == SubSeq(text, start + 1, end)

\* json.loads on a slice: the decoded object, or JSONDecodeError (valid = FALSE).
JsonLoads(json_str, body) ==
  IF json_str = <<"{", "}">> THEN EmptyObject
  ELSE IF json_str = <<"{", "x", "}">> THEN body
  ELSE NotJson

\* The dedup loop of _validate_and_clean: first occurrences in order.
RECURSIVE Unique(_, _)
Unique(s, seen) ==
  IF s = <<>> THEN <<>>
  ELSE IF Head(s) \in seen THEN Unique(Tail(s), seen)
  ELSE <<Head(s)>> \o Unique(Tail(s), seen \cup {Head(s)})

RECURSIVE Filter(_, _)
Filter(s, S) ==
  IF s = <<>> THEN <<>>
  ELSE IF Head(s) \in S THEN <<Head(s)>> \o Filter(Tail(s), S)
  ELSE Filter(Tail(s), S)

\* _validate_and_clean without its default for an empty validated list.
_validate_and_clean_NoDefault(obj) ==
  LET listed == IF obj.intents.kind = "missing" THEN <<"general_query">>
                ELSE IF obj.intents.kind = "list" THEN obj.intents.items
                ELSE <<obj.intents.value>>
      unique_intents == Unique(listed, {})
      validated_intents == Filter(unique_intents, allowed_intents)
  IN  IF \E i \in 1..Len(listed) : ~Hashable(listed[i])
      THEN Raised("TypeError")
      ELSE [raised |-> FALSE, err |-> "",
            in_scope |-> IF obj.in_scope = MISSING THEN JTrue ELSE obj.in_scope,
            intents |-> validated_intents,
            slots |-> IF obj.slots.kind = "missing" THEN MapSlots(EmptyMap)
                      ELSE obj.slots]

_validate_and_clean(obj) ==
  LET listed == IF obj.intents.kind = "missing" THEN <<"general_query">>
                ELSE IF obj.intents.kind = "list" THEN obj.intents.items
                ELSE <<obj.intents.value>>
      unique_intents == Unique(listed, {})
      validated_intents == Filter(unique_intents, allowed_intents)
  IN  IF \E i \in 1..Len(listed) : ~Hashable(listed[i])
      THEN Raised("TypeError")
      ELSE [raised |-> FALSE, err |-> "",
            in_scope |-> IF obj.in_scope = MISSING THEN JTrue ELSE obj.in_scope,
            intents |-> IF validated_intents = <<>> THEN <<"general_query">>
                        ELSE validated_intents,
            slots |-> IF obj.slots.kind = "missing" THEN MapSlots(EmptyMap)
                      ELSE obj.slots]

_extract_json(text, body) ==
  LET start == Find(text, "{")
      end == RFind(text, "}") + 1
      json_str == Slice(text, start, end)
      decoded == JsonLoads(json_str, body)
  IN  IF start = -1 \/ end = 0 THEN DefaultResult
      ELSE IF decoded.valid THEN _validate_and_clean(decoded)
      ELSE DefaultResult

\* RouteReturn with the simple/complex test written `len(intents) >= 1`.
RouteReturn_AnySimple(res) ==
  IF res.raised
  THEN [raised |-> TRUE, err |-> res.err, query_type |-> "", intents |-> <<>>,
        slots |-> NoSlots]
  ELSE IF ~Truthy(res.in_scope)
  THEN [raised |-> FALSE, err |-> "", query_type |-> "out_of_scope", intents |-> <<>>,
        slots |-> MapSlots(EmptyMap)]
  ELSE [raised |-> FALSE, err |-> "", query_type |-> "simple-query",
        intents |-> res.intents, slots |-> res.slots]

\* The tail of route: the returned triple, from the extracted result.
RouteReturn(res) ==
  IF res.raised
  THEN [raised |-> TRUE, err |-> res.err, query_type |-> "", intents |-> <<>>,
        slots |-> NoSlots]
  ELSE IF ~Truthy(res.in_scope)
  THEN [raised |-> FALSE, err |-> "", query_type |-> "out_of_scope", intents |-> <<>>,
        slots |-> MapSlots(EmptyMap)]
  ELSE IF Len(res.intents) = 1
  THEN [raised |-> FALSE, err |-> "", query_type |-> "simple-query",
        intents |-> res.intents, slots |-> res.slots]
  ELSE [raised |-> FALSE, err |-> "", query_type |-> "complex-query",
        intents |-> res.intents, slots |-> res.slots]

\* _call_llm: the reply's text, or the exception of a transport error or a
\* non-2xx status.
_call_llm(reply) ==
  IF reply.status = "ok" THEN [raised |-> FALSE, err |-> ""]
  ELSE [raised |-> TRUE, err |-> reply.status]

route(reply) ==
  IF _call_llm(reply).raised
  THEN [raised |-> TRUE, err |-> _call_llm(reply).err, query_type |-> "",
        intents |-> <<>>, slots |-> NoSlots]
  ELSE RouteReturn(_extract_json(reply.text, reply.body))


(* ---------------------------------------------------------------------- *)
(* Planner                                                                 *)
(* ---------------------------------------------------------------------- *)
agent_params(intent) ==
  CASE intent = "search_property" ->
         {"location", "num_rooms", "max_price", "property_size_sqft"}
    [] intent = "estimate_renovation" -> {"property_size_sqft", "num_rooms"}
    [] intent = "generate_report" -> {}
    [] intent = "save_preference" -> {"location", "num_rooms", "max_price"}
    [] intent = "web_research" -> {}
    [] intent = "general_query" -> {"certificate_keywords"}
    [] OTHER -> {}

\* Relevant with the test written `slots.get(key)`: a 0 or "" is dropped too.
Relevant_Truthy(key, slts) == key \in DOMAIN slts.map /\ Truthy(slts.map[key])

\* `key in slots and slots[key] is not None` on a dict.
Relevant(key, slts) == key \in DOMAIN slts.map /\ slts.map[key] # JNull

\* The params of one task; `key in slots` raises TypeError when slots is None
\* and is false for every key when slots is a text holding no key name.
_extract_relevant_params(intent, slts) ==
  LET relevant_keys == agent_params(intent)
  IN  IF relevant_keys = {} THEN [raised |-> FALSE, params |-> EmptyMap]
      ELSE IF slts.kind = "null" THEN [raised |-> TRUE, params |-> EmptyMap]
      ELSE IF slts.kind = "text" THEN [raised |-> FALSE, params |-> EmptyMap]
      ELSE [raised |-> FALSE,
            params |-> [key \in {k \in relevant_keys : Relevant(k, slts)}
                          |-> slts.map[key]]]

Task(agent, params) == [agent |-> agent, params |-> params]

FallbackTasks == [raised |-> FALSE, tasks |-> <<Task("general_query", EmptyMap)>>]

\* _plan_simple without its guard for an empty list.
_plan_simple_NoFallback(ints, slts) ==
  IF ints = <<>> THEN [raised |-> FALSE, tasks |-> <<>>]
  ELSE LET intent == ints[1]
           p == _extract_relevant_params(intent, slts)
       IN  IF p.raised THEN [raised |-> TRUE, tasks |-> <<>>]
           ELSE [raised |-> FALSE, tasks |-> <<Task(intent, p.params)>>]

_plan_simple(ints, slts) ==
  IF ints = <<>> THEN FallbackTasks
  ELSE LET intent == ints[1]
           p == _extract_relevant_params(intent, slts)
       IN  IF p.raised THEN [raised |-> TRUE, tasks |-> <<>>]
           ELSE [raised |-> FALSE, tasks |-> <<Task(intent, p.params)>>]

\* _plan_complex returning from inside its loop, after the first task.
_plan_complex_FirstOnly(ints, slts) ==
  IF ints = <<>> THEN FallbackTasks
  ELSE IF _extract_relevant_params(ints[1], slts).raised
  THEN [raised |-> TRUE, tasks |-> <<>>]
  ELSE [raised |-> FALSE,
        tasks |-> <<Task(ints[1], _extract_relevant_params(ints[1], slts).params)>>]

\* _plan_complex building its list from the last intent to the first.
_plan_complex_Reversed(ints, slts) ==
  IF ints = <<>> THEN FallbackTasks
  ELSE IF \E i \in 1..Len(ints) : _extract_relevant_params(ints[i], slts).raised
  THEN [raised |-> TRUE, tasks |-> <<>>]
  ELSE [raised |-> FALSE,
        tasks |-> [i \in 1..Len(ints) |->
                     Task(ints[Len(ints) + 1 - i],
                          _extract_relevant_params(ints[Len(ints) + 1 - i], slts).params)]]

_plan_complex(ints, slts) ==
  IF ints = <<>> THEN FallbackTasks
  ELSE IF \E i \in 1..Len(ints) : _extract_relevant_params(ints[i], slts).raised
  THEN [raised |-> TRUE, tasks |-> <<>>]
  ELSE [raised |-> FALSE,
        tasks |-> [i \in 1..Len(ints) |->
                     Task(ints[i], _extract_relevant_params(ints[i], slts).params)]]

\* plan without its early return for out_of_scope.
plan_NoScopeCheck(qt, ints, slts) ==
  IF qt = "complex-query" THEN _plan_complex(ints, slts)
  ELSE _plan_simple(ints, slts)

plan(qt, ints, slts) ==
  IF qt = "out_of_scope" THEN [raised |-> FALSE, tasks |-> <<>>]
  ELSE IF qt = "simple-query" THEN _plan_simple(ints, slts)
  ELSE IF qt = "complex-query" THEN _plan_complex(ints, slts)
  ELSE _plan_simple(ints, slts)

(* ---------------------------------------------------------------------- *)
(* Inputs                                                                  *)
(* ---------------------------------------------------------------------- *)
\* What a reply may list as an intent: names of the enumeration, another
\* name, null, and a nested object or array.
IntentValues == {"search_property", "generate_report", "general_query",
                 "bogus", JNull, JObj}

InScopeValues == {MISSING, JTrue, JFalse, JNull, JText}

Texts == SeqsUpTo(Tokens, MaxTextLen)

IntentsFields ==
  {NoIntents} \cup {ScalarIntents(v) : v \in IntentValues}
              \cup {ListIntents(s) : s \in SeqsUpTo(IntentValues, MaxIntents)}

SlotsFields ==
  {NoSlots, NullSlots}
    \cup {MapSlots(m) : m \in PartialMaps({"location"}, {JNull, "v"}, MaxSlotKeys)}

Bodies ==
  {NotJson} \cup
  [valid : {TRUE}, in_scope : InScopeValues, intents : IntentsFields,
   slots : SlotsFields]

\* The body matters only to a text that holds a run "x".
Replies ==
  {r \in [status : {"ok"}, text : Texts, body : Bodies] :
     "x" \notin Range(r.text) => r.body = NotJson}

Unused == [status |-> "none", text |-> <<>>, body |-> NotJson]

QueryTypes == {"out_of_scope", "simple-query", "complex-query", "unknown-type"}

PlanIntents == SeqsUpTo(allowed_intents \cup {"bogus"}, MaxPlanIntents)

PlanSlots == {MapSlots(m) : m \in PartialMaps(SlotKeys, SlotValues, MaxPlanSlotKeys)}

(* ---------------------------------------------------------------------- *)
(* The router and the planner as functions of their inputs                 *)
(* ---------------------------------------------------------------------- *)
\* No search_properties call has returned yet.
NoSearch == [any |-> FALSE, value |-> <<>>]

\* No turn has begun.
IdleTurn ==
  /\ user_input = ""
  /\ llm = Unused /\ result = DefaultResult /\ query_type = "" /\ intents = <<>>
  /\ slots = NoSlots /\ tasks = <<>> /\ idx = 0 /\ responses = <<>> /\ response = <<>>
  /\ invoked = <<>> /\ llmCalls = 0 /\ error = "" /\ turns = 0
  /\ found = NoSearch /\ built = <<>> /\ saves = <<>>

turn == <<user_input, llm, result, query_type, intents, slots, tasks, idx,
          responses, response, invoked, llmCalls, error, turns, found, built,
          saves>>

\* A chatbot whose Memory found no cache at construction.
Idle ==
  /\ IdleTurn
  /\ episodic = <<>> /\ shortterm = EmptyMap /\ prefs = EmptyMap
  /\ redis_available = FALSE /\ redis_client = EmptyMap /\ hist = <<>>
  /\ chatbots = EmptyMap

pipeline == <<user_input, episodic, shortterm, prefs, llm, result, query_type,
              intents, slots, tasks, idx, responses, response, invoked, llmCalls,
              error, turns, found, built, saves, redis_available, redis_client,
              hist>>

\* What the session cache and the ghost history hold; no step of a turn of
\* the pipeline below reads or writes them.
cache == <<redis_available, redis_client, hist>>

RouteInit ==
  /\ Idle
  /\ pc = "call"
  /\ arg \in Replies
  /\ ret = [raised |-> FALSE, err |-> "", query_type |-> "", intents |-> <<>>,
            slots |-> NoSlots]

\* route(user_input) on the reply `arg`; `result` keeps what _extract_json
\* returned.
RouteCall ==
  /\ pc = "call"
  /\ pc' = "returned"
  /\ ret' = route(arg)
  /\ result' = _extract_json(arg.text, arg.body)
  /\ UNCHANGED <<arg, user_input, episodic, shortterm, prefs, llm, query_type,
                 intents, slots, tasks, idx, responses, response, invoked,
                 llmCalls, error, turns, found, built, saves, cache, chatbots>>

SpecRoute == RouteInit /\ [][RouteCall]_vars

PlanInit ==
  /\ Idle
  /\ pc = "call"
  /\ arg \in [query_type : QueryTypes, intents : PlanIntents, slots : PlanSlots]
  /\ ret = [raised |-> FALSE, tasks |-> <<>>]

PlanCall ==
  /\ pc = "call"
  /\ pc' = "returned"
  /\ ret' = plan(arg.query_type, arg.intents, arg.slots)
  /\ UNCHANGED <<arg, pipeline, chatbots>>

SpecPlan == PlanInit /\ [][PlanCall]_vars


(* ---------------------------------------------------------------------- *)
(* Properties of the router                                                *)
(* ---------------------------------------------------------------------- *)
Returned == pc = "returned"

\* The text has no opening brace or no closing brace.
NoBraces(text) == "{" \notin Range(text) \/ "}" \notin Range(text)

\* What lies from the first opening brace to the last closing brace decodes.
Decodes(r) ==
  /\ ~NoBraces(r.text)
  /\ JsonLoads(Slice(r.text, Find(r.text, "{"), RFind(r.text, "}") + 1), r.body).valid

DecodedObject(r) ==
  JsonLoads(Slice(r.text, Find(r.text, "{"), RFind(r.text, "}") + 1), r.body)

\* C1: for every text the completion service can return, classification does
\* not raise, and a text with no braces or that does not decode gives exactly
\* in_scope=true, intents=[general_query], slots={}.
C1_ClassifyNeverRaises ==
  Returned =>
    /\ ~result.raised
    /\ ~ret.raised
    /\ ~Decodes(arg) =>
         /\ result.in_scope = JTrue
         /\ result.intents = <<"general_query">>
         /\ result.slots = MapSlots(EmptyMap)

\* The intents field of a decoded reply as a sequence: a missing field is no
\* intent, a value that is no list is a one-element sequence.
GivenIntents(obj) ==
  IF obj.intents.kind = "missing" THEN <<>>
  ELSE IF obj.intents.kind = "list" THEN obj.intents.items
  ELSE <<obj.intents.value>>

\* The positions of `s` that hold a member of the enumeration not held by an
\* earlier position.
KeptPositions(s) ==
  {i \in 1..Len(s) : s[i] \in allowed_intents /\ \A j \in 1..(i-1) : s[j] # s[i]}

\* `r` is `s` restricted to the positions P, in their order.
IsRestriction(r, s, P) ==
  /\ Len(r) = Cardinality(P)
  /\ \A i \in P : r[Cardinality({j \in P : j <= i})] = s[i]

\* C3: for every decoded classifier reply the validated intents are non-empty,
\* duplicate-free, members of the six-name enumeration, and are the given
\* intents with later duplicates and non-members removed in their order, or
\* [general_query] when nothing remains.
C3_ValidatedIntents ==
  (Returned /\ Decodes(arg)) =>
    LET given == GivenIntents(DecodedObject(arg))
        kept == KeptPositions(given)
    IN  /\ ~result.raised
        /\ result.intents # <<>>
        /\ \A i, j \in 1..Len(result.intents) :
             i # j => result.intents[i] # result.intents[j]
        /\ Range(result.intents) \subseteq allowed_intents
        /\ IF kept = {} THEN result.intents = <<"general_query">>
           ELSE IsRestriction(result.intents, given, kept)

\* C4: the query type route returns is out_of_scope exactly when the validated
\* in_scope is false (read by its truth value, as `not result['in_scope']`
\* reads it), simple-query exactly when it is true with one validated intent,
\* complex-query exactly when it is true with two or more.
C4_QueryType ==
  (Returned /\ ~ret.raised) =>
    /\ ret.query_type = "out_of_scope" <=> ~Truthy(result.in_scope)
    /\ ret.query_type = "simple-query" <=>
         (Truthy(result.in_scope) /\ Len(result.intents) = 1)
    /\ ret.query_type = "complex-query" <=>
         (Truthy(result.in_scope) /\ Len(result.intents) >= 2)

\* A reply with two distinct valid intents was routed as a complex query.
C4_Witness ==
  /\ Returned /\ ~ret.raised
  /\ ret.query_type = "complex-query"
  /\ Len(result.intents) = 2

(* ---------------------------------------------------------------------- *)
(* Properties of the planner                                               *)
(* ---------------------------------------------------------------------- *)
InScopeType(qt) == qt \in {"simple-query", "complex-query"}

\* C5: for every query type, intent list and slot map, plan returns as many
\* tasks as there are intents when the type is simple-query or complex-query,
\* and no task when the type is out_of_scope.
C5_PlanLength ==
  Returned =>
    /\ InScopeType(arg.query_type) => Len(ret.tasks) = Len(arg.intents)
    /\ arg.query_type = "out_of_scope" => ret.tasks = <<>>

\* C5 as amended: no task for out_of_scope; one task for an in-scope type with
\* an empty intent list; one task for simple-query; as many tasks as intents
\* for complex-query with a non-empty list.
C5_PlanLengthAmended ==
  Returned =>
    /\ arg.query_type = "out_of_scope" => ret.tasks = <<>>
    /\ (InScopeType(arg.query_type) /\ arg.intents = <<>>) => Len(ret.tasks) = 1
    /\ arg.query_type = "simple-query" => Len(ret.tasks) = 1
    /\ (arg.query_type = "complex-query" /\ arg.intents # <<>>) =>
         Len(ret.tasks) = Len(arg.intents)

\* A complex query of two intents was planned as two tasks.
C5_Witness ==
  /\ Returned
  /\ arg.query_type = "complex-query"
  /\ Len(arg.intents) = 2
  /\ Len(ret.tasks) = 2

\* The slot map `m` restricted to the keys of K that it holds with a value
\* other than null.
Projection(m, K) ==
  [k \in {x \in K \cap DOMAIN m : m[x] # JNull} |-> m[k]]

AllowList(intent) ==
  IF intent = "search_property"
  THEN {"location", "num_rooms", "max_price", "property_size_sqft"}
  ELSE IF intent = "estimate_renovation" THEN {"property_size_sqft", "num_rooms"}
  ELSE IF intent = "save_preference" THEN {"location", "num_rooms", "max_price"}
  ELSE IF intent = "general_query" THEN {"certificate_keywords"}
  ELSE {}

C8_EmptyIntentsFallback ==
  (Returned /\ InScopeType(arg.query_type) /\ arg.intents = <<>>) =>
    /\ ~ret.raised
    /\ ret.tasks = <<Task("general_query", EmptyMap)>>

\* The fallback task was emitted although the slot map held a non-null
\* certificate_keywords.
C8_Witness ==
  /\ Returned
  /\ arg.query_type = "simple-query"
  /\ arg.intents = <<>>
  /\ "certificate_keywords" \in DOMAIN arg.slots.map
  /\ arg.slots.map["certificate_keywords"] = "v"
  /\ Len(ret.tasks) = 1


(* ---------------------------------------------------------------------- *)
(* Memory                                                                  *)
(* Texts are sequences of pieces.  The Episodic log keeps role and content *)
(* of each turn (the timestamp is left out).  The session store is a map   *)
(* from full keys to values, the preference store a map from keys to       *)
(* values for this user.                                                   *)
(* ---------------------------------------------------------------------- *)
user_id == <<"u">>

\* add_message inserting at the head of the log.
add_message_AtHead(log, role, content) ==
  <<[role |-> role, content |-> content]>> \o log

add_message(log, role, content) ==
  Append(log, [role |-> role, content |-> content])

\* last_n is [given |-> FALSE, n |-> 0] when the argument is omitted (None).
\* `if last_n:` is false for None and for 0; log[-n:] is the whole log when
\* n is at least its length.
get_conversation_history(log, last_n) ==
  IF last_n.given /\ last_n.n # 0
  THEN (IF last_n.n >= Len(log) THEN log
        ELSE SubSeq(log, Len(log) - last_n.n + 1, Len(log)))
  ELSE log

clear_conversation(log) == <<>>

full_key(key) == <<"session", ":">> \o user_id \o <<":", key>>

Put(m, k, v) == [x \in DOMAIN m \cup {k} |-> IF x = k THEN v ELSE m[x]]

set_context(st, key, value) == Put(st, full_key(key), value)

\* The stored value, or None (found = FALSE).
get_context(st, key) ==
  IF full_key(key) \in DOMAIN st
  THEN [found |-> TRUE, value |-> st[full_key(key)]]
  ELSE [found |-> FALSE, value |-> <<>>]

\* save_preference with ON CONFLICT ... DO NOTHING: the first value stays.
save_preference_InsertOnly(pf, key, value) ==
  IF key \in DOMAIN pf THEN pf ELSE Put(pf, key, value)

\* INSERT ... ON CONFLICT (user_id, memory_key) DO UPDATE.
save_preference(pf, key, value) == Put(pf, key, value)

\* SELECT memory_value ... WHERE user_id, memory_key; fetchone(): the value of
\* the row, or None when there is no row.
get_preference(pf, key) ==
  IF key \in DOMAIN pf THEN [found |-> TRUE, value |-> pf[key]]
  ELSE [found |-> FALSE, value |-> ""]

\* SELECT memory_key, memory_value ... WHERE user_id; a dict of the rows.
get_all_preferences(pf) == [key \in DOMAIN pf |-> pf[key]]

(* ---------------------------------------------------------------------- *)
(* Handlers: each gives the set of outcomes its collaborators allow        *)
(* ---------------------------------------------------------------------- *)
ShownProperties == 10

ResultSets == SeqsUpTo({"p1"}, MaxResults)

Take(s, n) == SubSeq(s, 1, IF Len(s) < n THEN Len(s) ELSE n)

\* `collab` names the collaborator call that returned during the handler
\* (search_properties, with its rows) or was made by it (generate_report, with
\* its argument), if any.
NoCall == [name |-> "", value |-> <<>>]

Ok(h, text, st, pf) ==
  [raised |-> FALSE, err |-> "", handler |-> h, text |-> text, shortterm |-> st,
   prefs |-> pf, collab |-> NoCall]

Raise(h, e, st, pf) ==
  [raised |-> TRUE, err |-> e, handler |-> h, text |-> <<>>, shortterm |-> st,
   prefs |-> pf, collab |-> NoCall]

Calling(out, name, value) == [out EXCEPT !.collab = [name |-> name, value |-> value]]

\* dict.get(key): the value, or None (null) when the key is absent.
Get(params, key) == IF key \in DOMAIN params THEN params[key] ELSE JNull

\* str(value)
Str(v) == IF v = JZero THEN "'0'" ELSE IF v = "v" THEN "'v'" ELSE v

\* search_properties fails on a database error, else returns the rows found.
_handle_search(params, st, pf) ==
  {Raise("_handle_search", "OperationalError", st, pf)} \cup
  {Calling(IF properties = <<>>
           THEN Ok("_handle_search", <<"No properties found matching your criteria">>,
                   st, pf)
           ELSE Ok("_handle_search",
                   <<"Found properties:">> \o Take(properties, ShownProperties)
                     \o (IF Len(properties) > ShownProperties THEN <<"... and more">>
                         ELSE <<>>),
                   set_context(st, "last_search_results", properties), pf),
           "search_properties", properties)
   : properties \in ResultSets}

_handle_renovation(params, st, pf) ==
  LET size == IF Get(params, "property_size_sqft") = JNull
                   /\ Truthy(Get(params, "num_rooms"))
              THEN "estimated"
              ELSE Get(params, "property_size_sqft")
  IN  {IF size = JNull
       THEN Ok("_handle_renovation", <<"Need property size or number of rooms">>, st, pf)
       ELSE Ok("_handle_renovation", <<"Renovation Cost Estimates for", size>>, st, pf)}

\* _handle_report without its first `if not properties` test: None[:10]
\* raises TypeError, an empty list reaches the second test.
_handle_report_NoCheck(params, st, pf) ==
  LET properties == get_context(st, "last_search_results")
  IN  IF ~properties.found
      THEN {Raise("_handle_report", "TypeError", st, pf)}
      ELSE IF Take(properties.value, ShownProperties) = <<>>
      THEN {Ok("_handle_report",
               <<"Could not generate report. Please search for properties first.">>,
               st, pf)}
      ELSE {Calling(Ok("_handle_report",
                       <<"Report generated successfully! Saved to:">>
                         \o Take(properties.value, ShownProperties), st, pf),
                    "generate_report", Take(properties.value, ShownProperties)),
            Calling(Raise("_handle_report", "OSError", st, pf),
                    "generate_report", Take(properties.value, ShownProperties))}

\* The report builder writes a PDF and may fail doing so.
_handle_report(params, st, pf) ==
  LET properties == get_context(st, "last_search_results")
  IN  IF ~properties.found \/ properties.value = <<>>
      THEN {Ok("_handle_report",
               <<"No recent property searches found. Please search for properties first.">>,
               st, pf)}
      ELSE IF Take(properties.value, ShownProperties) = <<>>
      THEN {Ok("_handle_report",
               <<"Could not generate report. Please search for properties first.">>,
               st, pf)}
      ELSE {Calling(Ok("_handle_report",
                       <<"Report generated successfully! Saved to:">>
                         \o Take(properties.value, ShownProperties), st, pf),
                    "generate_report", Take(properties.value, ShownProperties)),
            Calling(Raise("_handle_report", "OSError", st, pf),
                    "generate_report", Take(properties.value, ShownProperties))}

\* The writes _handle_save_preference attempts, in order.
PreferenceWrites(params) ==
  (IF Truthy(Get(params, "max_price"))
   THEN <<[key |-> "budget", value |-> Str(params["max_price"])]>> ELSE <<>>)
  \o (IF Truthy(Get(params, "location"))
      THEN <<[key |-> "preferred_location", value |-> params["location"]]>> ELSE <<>>)
  \o (IF Truthy(Get(params, "num_rooms"))
      THEN <<[key |-> "preferred_rooms", value |-> Str(params["num_rooms"])]>> ELSE <<>>)

RECURSIVE ApplyWrites(_, _)
ApplyWrites(pf, writes) ==
  IF writes = <<>> THEN pf
  ELSE ApplyWrites(save_preference(pf, Head(writes).key, Head(writes).value), Tail(writes))

\* _handle_save_preference with every save wrapped in try/except: a failed
\* write is skipped and the confirmation is returned all the same.
_handle_save_preference_Swallow(params, st, pf) ==
  LET writes == PreferenceWrites(params)
  IN  {Calling(Ok("_handle_save_preference",
                  <<"Preferences saved! I'll remember them for future searches.">>,
                  st, ApplyWrites(pf, SubSeq(writes, 1, k - 1))),
               "save_preference",
               [i \in 1..k |-> IF i < k THEN "saved" ELSE "OperationalError"])
       : k \in 1..Len(writes)}
      \cup {Calling(Ok("_handle_save_preference",
                       <<"Preferences saved! I'll remember them for future searches.">>,
                       st, ApplyWrites(pf, writes)),
                    "save_preference", [i \in 1..Len(writes) |-> "saved"])}

\* Every write connects to the database: the handler returns when all succeed
\* and raises at the first that fails, the earlier ones committed. The calls
\* of memory.save_preference made are reported with how each ended.
_handle_save_preference(params, st, pf) ==
  LET writes == PreferenceWrites(params)
  IN  {Calling(Ok("_handle_save_preference",
                  <<"Preferences saved! I'll remember them for future searches.">>,
                  st, ApplyWrites(pf, writes)),
               "save_preference", [i \in 1..Len(writes) |-> "saved"])}
      \cup {Calling(Raise("_handle_save_preference", "OperationalError", st,
                          ApplyWrites(pf, SubSeq(writes, 1, k - 1))),
                    "save_preference",
                    [i \in 1..k |-> IF i < k THEN "saved" ELSE "OperationalError"])
            : k \in 1..Len(writes)}

\* research() catches every failure and answers with a fallback summary.
_handle_web_research(input, st, pf) ==
  {Ok("_handle_web_research", <<"market summary", input>>, st, pf),
   Ok("_handle_web_research", <<"Real-time market data is not available", input>>, st, pf)}

\* The semantic-answer collaborator may fail; its answer may carry sources.
_handle_general_query(input, params, st, pf) ==
  {Ok("_handle_general_query", <<"answer", input>>, st, pf),
   Ok("_handle_general_query", <<"answer", input, "Sources:", "p1">>, st, pf),
   Raise("_handle_general_query", "HTTPError", st, pf)}

\* _execute_task as a lookup in a table of handlers: a name that is not in
\* the table raises KeyError.
_execute_task_TableLookup(task, input, st, pf) ==
  IF task.agent = "search_property" THEN _handle_search(task.params, st, pf)
  ELSE IF task.agent = "estimate_renovation" THEN _handle_renovation(task.params, st, pf)
  ELSE IF task.agent = "generate_report" THEN _handle_report(task.params, st, pf)
  ELSE IF task.agent = "save_preference" THEN _handle_save_preference(task.params, st, pf)
  ELSE IF task.agent = "web_research" THEN _handle_web_research(input, st, pf)
  ELSE IF task.agent = "general_query" THEN _handle_general_query(input, task.params, st, pf)
  ELSE {Raise("", "KeyError", st, pf)}

_execute_task(task, input, st, pf) ==
  IF task.agent = "search_property" THEN _handle_search(task.params, st, pf)
  ELSE IF task.agent = "estimate_renovation" THEN _handle_renovation(task.params, st, pf)
  ELSE IF task.agent = "generate_report" THEN _handle_report(task.params, st, pf)
  ELSE IF task.agent = "save_preference" THEN _handle_save_preference(task.params, st, pf)
  ELSE IF task.agent = "web_research" THEN _handle_web_research(input, st, pf)
  ELSE IF task.agent = "general_query" THEN _handle_general_query(input, task.params, st, pf)
  ELSE {Ok("", <<"I'm not sure how to help with that.">>, st, pf)}

\* agent.replace('_', ' ').title()
Title(agent) ==
  CASE agent = "search_property" -> "Search Property"
    [] agent = "estimate_renovation" -> "Estimate Renovation"
    [] agent = "generate_report" -> "Generate Report"
    [] agent = "save_preference" -> "Save Preference"
    [] agent = "web_research" -> "Web Research"
    [] agent = "general_query" -> "General Query"
    [] OTHER -> "Other"

Block(agent, text) == <<"**", Title(agent), ":**\n">> \o text

RECURSIVE Join(_, _)
Join(blocks, sep) ==
  IF blocks = <<>> THEN <<>>
  ELSE IF Len(blocks) = 1 THEN blocks[1]
  ELSE blocks[1] \o sep \o Join(Tail(blocks), sep)

Refusal ==
  <<"I can only help with real estate queries. Please ask about properties, prices, or renovations.">>

NotSure ==
  <<"I'm not sure how to help with that. Try asking about property search or renovation estimates.">>


(* ---------------------------------------------------------------------- *)
(* RealEstateChatbot.chat, one step per stage of a turn                    *)
(* ---------------------------------------------------------------------- *)
\* The user's message of the n-th turn; no step of a turn reads its content.
InputOf(n) == IF n % 2 = 1 THEN "Find 2BHK in Mumbai" ELSE "Who is the president?"

TurnIntents ==
  {NoIntents, ScalarIntents("web_research"), ScalarIntents(JObj)} \cup
  {ListIntents(s) : s \in
     {<<"search_property">>, <<"estimate_renovation">>, <<"generate_report">>,
      <<"save_preference">>, <<"web_research">>, <<"general_query">>,
      <<"search_property", "generate_report">>,
      <<"generate_report", "search_property">>,
      <<"save_preference", "search_property">>,
      <<"search_property", "estimate_renovation", "generate_report">>,
      <<"bogus", "search_property", "search_property">>,
      <<"bogus">>,
      <<"general_query", JObj>>}}

TurnSlots ==
  {NoSlots, NullSlots,
   MapSlots([k \in {"location", "max_price", "num_rooms", "certificate_keywords"}
               |-> IF k = "num_rooms" THEN JNull ELSE "v"]),
   MapSlots([k \in {"max_price", "num_rooms", "property_size_sqft", "min_price"}
               |-> IF k = "max_price" THEN JZero ELSE "v"])}

\* What the completion service may do in a turn: fail in transport, answer
\* with a non-2xx status, answer with prose, with braces around something
\* that is not JSON, or with a JSON object.
TurnReplies ==
  {[status |-> e, text |-> <<>>, body |-> NotJson] : e \in {"ConnectionError", "HTTPError"}}
  \cup {[status |-> "ok", text |-> <<"x">>, body |-> NotJson],
        [status |-> "ok", text |-> <<"{", "x", "}">>, body |-> NotJson]}
  \cup {[status |-> "ok", text |-> <<"x", "{", "x", "}">>, body |-> b] : b \in
          [valid : {TRUE}, in_scope : {JTrue, JFalse}, intents : TurnIntents,
           slots : TurnSlots]}

Init ==
  /\ Idle
  /\ pc = "Idle"
  /\ arg = ""
  /\ ret = ""

\* chat with the user turn logged at its end, next to the assistant turn,
\* instead of at its beginning: nothing is logged before route is called.
ChatBegin_LogAtEnd ==
  /\ pc \in {"Idle", "Responded", "Failed"}
  /\ turns < MaxTurns
  /\ user_input' = InputOf(turns + 1)
  /\ turns' = turns + 1
  /\ pc' = "Start"
  /\ llm' = Unused /\ result' = DefaultResult /\ query_type' = "" /\ intents' = <<>>
  /\ slots' = NoSlots /\ tasks' = <<>> /\ idx' = 0 /\ responses' = <<>>
  /\ response' = <<>> /\ invoked' = <<>> /\ llmCalls' = 0 /\ error' = ""
  /\ built' = <<>> /\ saves' = <<>>
  /\ UNCHANGED <<episodic, shortterm, prefs, arg, ret, found, cache, chatbots>>

\* chat(user_input) up to the call of route: the user turn is logged.
ChatBegin ==
  /\ pc \in {"Idle", "Responded", "Failed"}
  /\ turns < MaxTurns
  /\ user_input' = InputOf(turns + 1)
  /\ episodic' = add_message(episodic, "user", <<InputOf(turns + 1)>>)
  /\ turns' = turns + 1
  /\ pc' = "Start"
  /\ llm' = Unused /\ result' = DefaultResult /\ query_type' = "" /\ intents' = <<>>
  /\ slots' = NoSlots /\ tasks' = <<>> /\ idx' = 0 /\ responses' = <<>>
  /\ response' = <<>> /\ invoked' = <<>> /\ llmCalls' = 0 /\ error' = ""
  /\ built' = <<>> /\ saves' = <<>>
  /\ UNCHANGED <<shortterm, prefs, arg, ret, found, cache, chatbots>>

\* router.route(user_input): one completion call; an exception leaves chat.
Route ==
  /\ pc = "Start"
  /\ \E reply \in TurnReplies :
       LET r == route(reply)
       IN  /\ llm' = [status |-> reply.status, text |-> <<>>, body |-> NotJson]
           /\ llmCalls' = llmCalls + 1
           /\ result' = IF _call_llm(reply).raised THEN result
                        ELSE _extract_json(reply.text, reply.body)
           /\ IF r.raised
              THEN /\ pc' = "Failed"
                   /\ error' = r.err
                   /\ UNCHANGED <<query_type, intents, slots>>
              ELSE /\ pc' = "Classified"
                   /\ query_type' = r.query_type
                   /\ intents' = r.intents
                   /\ slots' = r.slots
                   /\ UNCHANGED error
  /\ UNCHANGED <<user_input, episodic, shortterm, prefs, tasks, idx, responses,
                 response, invoked, turns, arg, ret, found, built, saves, cache, chatbots>>

\* planner.plan(query_type, intents, slots)
Plan ==
  /\ pc = "Classified"
  /\ LET p == plan(query_type, intents, slots)
     IN  IF p.raised
         THEN /\ pc' = "Failed"
              /\ error' = "TypeError"
              /\ UNCHANGED tasks
         ELSE /\ pc' = "Planned"
              /\ tasks' = p.tasks
              /\ UNCHANGED error
  /\ UNCHANGED <<user_input, episodic, shortterm, prefs, llm, result, query_type,
                 intents, slots, idx, responses, response, invoked, llmCalls,
                 turns, arg, ret, found, built, saves, cache, chatbots>>

\* The tasks chat runs: tasks[0] of a simple query (chat.py:68), every task of
\* a complex query (chat.py:122), none otherwise.
TasksToRun ==
  IF query_type = "simple-query" THEN 1
  ELSE IF query_type = "complex-query" THEN Len(tasks)
  ELSE 0

\* Execute with every task of the loop wrapped in try/except: the error of a
\* handler becomes the text of its block and the loop goes on to the next task.
Execute_CatchAndContinue ==
  /\ pc \in {"Planned", "Executing"}
  /\ idx < TasksToRun
  /\ IF idx + 1 > Len(tasks)
     THEN /\ pc' = "Failed"
          /\ error' = "IndexError"
          /\ UNCHANGED <<idx, responses, invoked, shortterm, prefs, found, built,
                           saves>>
     ELSE \E out \in _execute_task(tasks[idx + 1], user_input, shortterm, prefs) :
            /\ invoked' = IF out.handler = "" THEN invoked
                          ELSE Append(invoked, out.handler)
            /\ found' = IF out.collab.name = "search_properties"
                        THEN [any |-> TRUE, value |-> out.collab.value]
                        ELSE found
            /\ built' = IF out.collab.name = "generate_report"
                        THEN Append(built, out.collab.value)
                        ELSE built
            /\ saves' = IF out.collab.name = "save_preference"
                        THEN saves \o out.collab.value
                        ELSE saves
            /\ shortterm' = out.shortterm
            /\ prefs' = out.prefs
            /\ pc' = "Executing"
            /\ idx' = idx + 1
            /\ responses' = Append(responses,
                                   [agent |-> tasks[idx + 1].agent,
                                    text |-> IF out.raised THEN <<"Error:", out.err>>
                                             ELSE out.text])
            /\ error' = IF out.raised THEN out.err ELSE error
  /\ UNCHANGED <<user_input, episodic, llm, result, query_type, intents, slots,
                 tasks, response, llmCalls, turns, arg, ret, cache, chatbots>>

\* One call of _execute_task, with what its handler writes to Memory; an
\* exception of the handler, or the read of tasks[0] of an empty list,
\* leaves chat.
Execute ==
  /\ pc \in {"Planned", "Executing"}
  /\ idx < TasksToRun
  /\ IF idx + 1 > Len(tasks)
     THEN /\ pc' = "Failed"
          /\ error' = "IndexError"
          /\ UNCHANGED <<idx, responses, invoked, shortterm, prefs, found, built,
                           saves>>
     ELSE \E out \in _execute_task(tasks[idx + 1], user_input, shortterm, prefs) :
            /\ invoked' = IF out.handler = "" THEN invoked
                          ELSE Append(invoked, out.handler)
            /\ found' = IF out.collab.name = "search_properties"
                        THEN [any |-> TRUE, value |-> out.collab.value]
                        ELSE found
            /\ built' = IF out.collab.name = "generate_report"
                        THEN Append(built, out.collab.value)
                        ELSE built
            /\ saves' = IF out.collab.name = "save_preference"
                        THEN saves \o out.collab.value
                        ELSE saves
            /\ shortterm' = out.shortterm
            /\ prefs' = out.prefs
            /\ IF out.raised
               THEN /\ pc' = "Failed"
                    /\ error' = out.err
                    /\ UNCHANGED <<idx, responses>>
               ELSE /\ pc' = "Executing"
                    /\ idx' = idx + 1
                    /\ responses' = Append(responses,
                                           [agent |-> tasks[idx + 1].agent,
                                            text |-> out.text])
                    /\ UNCHANGED error
  /\ UNCHANGED <<user_input, episodic, llm, result, query_type, intents, slots,
                 tasks, response, llmCalls, turns, arg, ret, cache, chatbots>>

\* ResponseText with the blocks of a complex query inserted at the front of
\* the list (responses.insert(0, ...)), so that the last task's block is first.
ResponseText_LastFirst ==
  IF query_type = "out_of_scope" THEN Refusal
  ELSE IF query_type = "simple-query" THEN responses[1].text
  ELSE IF query_type = "complex-query"
  THEN <<"\n\n">> \o Join([i \in 1..Len(responses) |->
                             Block(responses[Len(responses) + 1 - i].agent,
                                   responses[Len(responses) + 1 - i].text)],
                          <<"\n\n---\n\n">>)
  ELSE NotSure

\* ResponseText with the single task of a simple query run through the loop
\* of the complex path: its text comes out under a label.
ResponseText_AlwaysLabeled ==
  IF query_type = "out_of_scope" THEN Refusal
  ELSE IF query_type \in {"simple-query", "complex-query"}
  THEN <<"\n\n">> \o Join([i \in 1..Len(responses) |->
                             Block(responses[i].agent, responses[i].text)],
                          <<"\n\n---\n\n">>)
  ELSE NotSure

\* The text chat returns, from the outputs of the tasks run.
ResponseText ==
  IF query_type = "out_of_scope" THEN Refusal
  ELSE IF query_type = "simple-query" THEN responses[1].text
  ELSE IF query_type = "complex-query"
  THEN <<"\n\n">> \o Join([i \in 1..Len(responses) |->
                             Block(responses[i].agent, responses[i].text)],
                          <<"\n\n---\n\n">>)
  ELSE NotSure

\* The end of chat: the response is logged as the assistant turn and returned.
Respond ==
  /\ pc \in {"Planned", "Executing"}
  /\ idx = TasksToRun
  /\ response' = ResponseText
  /\ episodic' = add_message(episodic, "assistant", ResponseText)
  /\ pc' = "Responded"
  /\ UNCHANGED <<user_input, shortterm, prefs, llm, result, query_type, intents,
                 slots, tasks, idx, responses, invoked, llmCalls, error, turns,
                 arg, ret, found, built, saves, cache, chatbots>>

Next == ChatBegin \/ Route \/ Plan \/ Execute \/ Respond

Spec == Init /\ [][Next]_vars


(* ---------------------------------------------------------------------- *)
(* Properties of a turn                                                    *)
(* ---------------------------------------------------------------------- *)
Unavailable == llm.status \in {"ConnectionError", "HTTPError"}

\* C2: when the completion service is unavailable the turn degrades to
\* in_scope=true, intents=[general_query] and goes on to planning and
\* execution; the failure never reaches the caller, and the completion call
\* is made once.
C2_UnavailableDegrades ==
  Unavailable =>
    /\ pc # "Failed"
    /\ query_type = "simple-query"
    /\ intents = <<"general_query">>
    /\ llmCalls = 1

\* C7: for an in-scope query the i-th task plan emits has the i-th intent as
\* its agent, for every position i.
C7_TaskOrder ==
  (pc \in {"Planned", "Executing", "Responded"}
     /\ query_type \in {"simple-query", "complex-query"}) =>
    /\ Len(tasks) = Len(intents)
    /\ \A i \in 1..Len(intents) : tasks[i].agent = intents[i]

\* Three intents were planned as three tasks in the same order.
C7_Witness ==
  /\ pc = "Planned"
  /\ intents = <<"search_property", "estimate_renovation", "generate_report">>
  /\ Len(tasks) = 3
  /\ tasks[3].agent = "generate_report"

UserTurn(text) == [role |-> "user", content |-> <<text>>]

AssistantTurn(text) == [role |-> "assistant", content |-> text]

\* C9: every call of chat appends exactly one user turn holding the input and
\* then exactly one assistant turn holding the final response, on every
\* branch and also when classification or a handler fails.
C9_UserAndAssistantTurn ==
  pc \in {"Responded", "Failed"} =>
    /\ Len(episodic) = 2 * turns
    /\ episodic[Len(episodic) - 1] = UserTurn(user_input)
    /\ episodic[Len(episodic)].role = "assistant"

\* C9 as amended: a call of chat first appends one user turn holding the
\* input; when it returns it has appended, once and last, one assistant turn
\* holding the returned response; when route, plan or a handler raises, no
\* assistant turn is appended; no other step changes the log.
C9_UserThenAssistantUnlessRaised ==
  [][/\ (pc' = "Start" /\ pc # "Start") =>
          episodic' = Append(episodic, UserTurn(user_input'))
     /\ (pc' = "Responded" /\ pc # "Responded") =>
          episodic' = Append(episodic, AssistantTurn(response'))
     /\ (pc' \notin {"Start", "Responded"}) => episodic' = episodic]_vars

\* A call that raised was followed by a call that returned: three turns in
\* the log, the last two of the second call.
C9_Witness ==
  /\ pc = "Responded"
  /\ turns = 2
  /\ Len(episodic) = 3
  /\ episodic[1].role = "user"
  /\ episodic[2] = UserTurn(user_input)
  /\ episodic[3] = AssistantTurn(response)

\* C10: for an out-of-scope query the response is the fixed refusal, no
\* handler is invoked, the task list is empty, and no step of the turn
\* changes Session or Preference memory.
C10_OutOfScope ==
  /\ [](query_type = "out_of_scope" =>
          /\ tasks = <<>>
          /\ invoked = <<>>
          /\ pc \in {"Classified", "Planned", "Responded"}
          /\ (pc = "Responded" =>
                /\ response = Refusal
                /\ episodic[Len(episodic)] = AssistantTurn(Refusal)))
  /\ [][(pc' = "Start" \/ query_type' = "out_of_scope" \/ query_type = "out_of_scope")
          => (shortterm' = shortterm /\ prefs' = prefs)]_vars

\* An out-of-scope turn ended after a turn that had stored search results and
\* a preference.
C10_Witness ==
  /\ pc = "Responded"
  /\ query_type = "out_of_scope"
  /\ response = Refusal
  /\ shortterm # EmptyMap
  /\ prefs # EmptyMap

(* ---------------------------------------------------------------------- *)
(* Memory: the session store                                               *)
(* A Python value is a record: its type, its text when it is a scalar, its *)
(* items when it is a list.  The cache holds, per name, the text json.dumps*)
(* gave and the seconds the entry has left; the fallback dict holds the    *)
(* values themselves.                                                      *)
(* ---------------------------------------------------------------------- *)
MaxTtl == 2

PyScalar(type, text) == [type |-> type, text |-> text, items |-> <<>>]

PyNone == PyScalar("NoneType", "None")

PyList(items) == [type |-> "list", text |-> "", items |-> items]

\* The values a list may hold.
ItemValues == {PyNone, PyScalar("str", "v")}

\* JSON values: null, booleans, a number, strings (one spelled like a JSON
\* literal), and lists.
SessionValues ==
  {PyNone, PyScalar("bool", "True"), PyScalar("bool", "False"), PyScalar("int", "0"),
   PyScalar("str", ""), PyScalar("str", "v"), PyScalar("str", "null")}
  \cup {PyList(items) : items \in SeqsUpTo(ItemValues, MaxResults)}

SessionKeys == {"last_search_results", "k"}

\* What set_context is called with: every value under last_search_results, one
\* value under a second key.
SessionWrites ==
  {[key |-> "last_search_results", value |-> v] : v \in SessionValues}
  \cup {[key |-> "k", value |-> PyScalar("str", "v")]}

Ttls == 1..MaxTtl

\* json.dumps of a scalar: the JSON literal, a string between quotes.
DumpScalar(v) ==
  IF v.type = "NoneType" THEN <<"null">>
  ELSE IF v.type = "bool" THEN (IF v.text = "True" THEN <<"true">> ELSE <<"false">>)
  ELSE IF v.type = "int" THEN <<v.text>>
  ELSE <<"\"", v.text, "\"">>

\* str() of a scalar.
StrScalar(v) == <<v.text>>

RECURSIVE DumpItems(_)
DumpItems(items) ==
  IF items = <<>> THEN <<>>
  ELSE IF Len(items) = 1 THEN DumpScalar(items[1])
  ELSE DumpScalar(items[1]) \o <<", ">> \o DumpItems(Tail(items))

\* json.dumps written str(value): None, True, unquoted strings.
json_dumps_Str(value) ==
  IF value.type = "list"
  THEN <<"[">> \o (IF value.items = <<>> THEN <<>> ELSE <<"...">>) \o <<"]">>
  ELSE StrScalar(value)

json_dumps(value) ==
  IF value.type = "list" THEN <<"[">> \o DumpItems(value.items) \o <<"]">>
  ELSE DumpScalar(value)

\* json.loads of the text of one scalar; valid = FALSE for JSONDecodeError.
LoadScalar(text) ==
  IF text = <<"null">> THEN [valid |-> TRUE, value |-> PyNone]
  ELSE IF text = <<"true">> THEN [valid |-> TRUE, value |-> PyScalar("bool", "True")]
  ELSE IF text = <<"false">> THEN [valid |-> TRUE, value |-> PyScalar("bool", "False")]
  ELSE IF text = <<"0">> THEN [valid |-> TRUE, value |-> PyScalar("int", "0")]
  ELSE IF Len(text) = 3 /\ text[1] = "\"" /\ text[3] = "\""
  THEN [valid |-> TRUE, value |-> PyScalar("str", text[2])]
  ELSE [valid |-> FALSE, value |-> PyNone]

\* The items of the text between the brackets of an array, read from the left.
RECURSIVE LoadItems(_)
LoadItems(text) ==
  IF text = <<>> THEN [valid |-> TRUE, items |-> <<>>]
  ELSE LET n == IF text[1] = "\"" THEN 3 ELSE 1
           first == IF Len(text) >= n THEN LoadScalar(SubSeq(text, 1, n))
                    ELSE [valid |-> FALSE, value |-> PyNone]
       IN  IF ~first.valid THEN [valid |-> FALSE, items |-> <<>>]
           ELSE IF Len(text) = n THEN [valid |-> TRUE, items |-> <<first.value>>]
           ELSE IF text[n + 1] # ", " \/ Len(text) = n + 1
           THEN [valid |-> FALSE, items |-> <<>>]
           ELSE LET rest == LoadItems(SubSeq(text, n + 2, Len(text)))
                IN  [valid |-> rest.valid,
                     items |-> IF rest.valid THEN <<first.value>> \o rest.items
                               ELSE <<>>]

json_loads(text) ==
  IF Len(text) >= 2 /\ text[1] = "[" /\ text[Len(text)] = "]"
  THEN LET inner == LoadItems(SubSeq(text, 2, Len(text) - 1))
       IN  [valid |-> inner.valid,
            value |-> IF inner.valid THEN PyList(inner.items) ELSE PyNone]
  ELSE LoadScalar(text)

\* SET name value, with no expiry (-1 is what TTL reports for such an entry).
setex_NoExpiry(rc, name, time, value) == Put(rc, name, [data |-> value, ttl |-> -1])

\* SETEX name time value
setex(rc, name, time, value) == Put(rc, name, [data |-> value, ttl |-> time])

\* KEYS "session:{user_id}:*": the names that begin with the pattern's prefix.
keys(rc) ==
  LET prefix == <<"session", ":">> \o user_id \o <<":">>
  IN  {name \in DOMAIN rc :
         Len(name) >= Len(prefix) /\ SubSeq(name, 1, Len(prefix)) = prefix}

\* DEL names
delete(rc, names) == [name \in DOMAIN rc \ names |-> rc[name]]

\* One second passes on the cache server: an entry with no time left is gone.
Expire(rc) ==
  [name \in {x \in DOMAIN rc : rc[x].ttl # 1} |->
     IF rc[name].ttl = -1 THEN rc[name]
     ELSE [rc[name] EXCEPT !.ttl = rc[name].ttl - 1]]

\* get_context when the cache is in use: GET, then json.loads of a text.
get_context_redis(rc, key) ==
  IF full_key(key) \notin DOMAIN rc
  THEN [raised |-> FALSE, found |-> FALSE, value |-> PyNone]
  ELSE LET value == rc[full_key(key)].data
           loaded == json_loads(value)
       IN  IF value = <<>> THEN [raised |-> FALSE, found |-> FALSE, value |-> PyNone]
           ELSE IF ~loaded.valid THEN [raised |-> TRUE, found |-> FALSE, value |-> PyNone]
           ELSE [raised |-> FALSE, found |-> TRUE, value |-> loaded.value]

\* get_context when the fallback dict is in use.
get_context_dict(st, key) ==
  [raised |-> FALSE, found |-> get_context(st, key).found,
   value |-> IF get_context(st, key).found THEN get_context(st, key).value ELSE PyNone]

\* Ghost: what has happened to a key since construction.
Never == [state |-> "never", value |-> PyNone, left |-> 0]

NoOp == [op |-> "", key |-> "", value |-> PyNone, ttl |-> 0]

NoRet == [raised |-> FALSE, found |-> FALSE, value |-> PyNone]

\* Memory(user_id): the cache answers the ping, or it does not.
SessionInit ==
  /\ IdleTurn
  /\ episodic = <<>> /\ prefs = EmptyMap
  /\ redis_available \in BOOLEAN
  /\ redis_client = EmptyMap
  /\ shortterm = EmptyMap
  /\ hist = [k \in SessionKeys |-> Never]
  /\ chatbots = EmptyMap
  /\ pc = "__init__"
  /\ arg = NoOp
  /\ ret = NoRet

SetContext ==
  \E w \in SessionWrites, ttl \in Ttls :
    LET key == w.key
        value == w.value
    IN
    /\ IF redis_available
       THEN /\ redis_client' = setex(redis_client, full_key(key), ttl, json_dumps(value))
            /\ UNCHANGED shortterm
       ELSE /\ shortterm' = set_context(shortterm, key, value)
            /\ UNCHANGED redis_client
    /\ hist' = [hist EXCEPT ![key] = [state |-> "set", value |-> value, left |-> ttl]]
    /\ pc' = "set_context"
    /\ arg' = [op |-> "set_context", key |-> key, value |-> value, ttl |-> ttl]
    /\ UNCHANGED <<ret, redis_available, episodic, prefs, turn, chatbots>>

GetContext ==
  \E key \in SessionKeys :
    /\ ret' = IF redis_available THEN get_context_redis(redis_client, key)
              ELSE get_context_dict(shortterm, key)
    /\ pc' = "get_context"
    /\ arg' = [op |-> "get_context", key |-> key, value |-> PyNone, ttl |-> 0]
    /\ UNCHANGED <<redis_available, redis_client, shortterm, hist, episodic, prefs, turn, chatbots>>

ClearSession ==
  /\ IF redis_available
     THEN /\ redis_client' = IF keys(redis_client) # {}
                             THEN delete(redis_client, keys(redis_client))
                             ELSE redis_client
          /\ UNCHANGED shortterm
     ELSE /\ shortterm' = EmptyMap
          /\ UNCHANGED redis_client
  /\ hist' = [k \in SessionKeys |->
                IF hist[k].state = "never" THEN hist[k]
                ELSE [state |-> "cleared", value |-> PyNone, left |-> 0]]
  /\ pc' = "clear_session"
  /\ arg' = [op |-> "clear_session", key |-> "", value |-> PyNone, ttl |-> 0]
  /\ UNCHANGED <<ret, redis_available, episodic, prefs, turn, chatbots>>

\* One second passes: the cache server drops what has run out of time; the
\* fallback dict is not touched.  The ghost counts the seconds of every key.
Tick ==
  /\ \E k \in SessionKeys : hist[k].state = "set"
  /\ redis_client' = Expire(redis_client)
  /\ hist' = [k \in SessionKeys |->
                IF hist[k].state # "set" THEN hist[k]
                ELSE IF hist[k].left = 1
                THEN [hist[k] EXCEPT !.state = "elapsed", !.left = 0]
                ELSE [hist[k] EXCEPT !.left = hist[k].left - 1]]
  /\ pc' = "tick"
  /\ arg' = [op |-> "tick", key |-> "", value |-> PyNone, ttl |-> 0]
  /\ UNCHANGED <<ret, redis_available, shortterm, episodic, prefs, turn, chatbots>>

SessionNext == SetContext \/ GetContext \/ ClearSession \/ Tick

SpecSession == SessionInit /\ [][SessionNext]_vars

\* The handler _execute_task calls for an agent name.
HandlerOf(agent) ==
  IF agent = "search_property" THEN "_handle_search"
  ELSE IF agent = "estimate_renovation" THEN "_handle_renovation"
  ELSE IF agent = "generate_report" THEN "_handle_report"
  ELSE IF agent = "save_preference" THEN "_handle_save_preference"
  ELSE IF agent = "web_research" THEN "_handle_web_research"
  ELSE "_handle_general_query"

\* The agent name with each underscore a space and each word capitalised.
Label(agent) ==
  IF agent = "search_property" THEN "Search Property"
  ELSE IF agent = "estimate_renovation" THEN "Estimate Renovation"
  ELSE IF agent = "generate_report" THEN "Generate Report"
  ELSE IF agent = "save_preference" THEN "Save Preference"
  ELSE IF agent = "web_research" THEN "Web Research"
  ELSE "General Query"

\* The first n labeled blocks of the turn, built from the left: the lead, then
\* for each task in turn the separator (from the second block on), the label
\* of the task's agent and the output recorded for it.
RECURSIVE Rendered(_)
Rendered(n) ==
  IF n = 0 THEN <<"\n\n">>
  ELSE Rendered(n - 1)
         \o (IF n > 1 THEN <<"\n\n---\n\n">> ELSE <<>>)
         \o <<"**", Label(tasks[n].agent), ":**\n">> \o responses[n].text

\* C11: in a complex query the handlers are invoked one at a time in task-list
\* order (the i-th invocation is the handler of the i-th task, and at most one
\* invocation is ahead of the outputs collected), and the response is one
\* labeled block per task in the same order, the N-th carrying the title-cased
\* name of the N-th task's agent and that handler's output, joined by the
\* separator.
C11_ComplexBlocksInTaskOrder ==
  (query_type = "complex-query" /\ pc \in {"Planned", "Executing", "Responded", "Failed"}) =>
    /\ Len(invoked) <= Len(tasks)
    /\ \A i \in 1..Len(invoked) : invoked[i] = HandlerOf(tasks[i].agent)
    /\ Len(responses) = idx
    /\ Len(invoked) \in {idx, idx + 1}
    /\ (Len(invoked) = idx + 1 => pc = "Failed")
    /\ \A i \in 1..Len(responses) : responses[i].agent = tasks[i].agent
    /\ pc = "Responded" =>
         /\ Len(responses) = Len(tasks)
         /\ Len(tasks) >= 2
         /\ response = Rendered(Len(tasks))

\* A complex query of three tasks was answered with three blocks, the search
\* block first and the report block last.
C11_Witness ==
  /\ pc = "Responded"
  /\ query_type = "complex-query"
  /\ Len(tasks) = 3
  /\ invoked = <<"_handle_search", "_handle_renovation", "_handle_report">>
  /\ response[3] = "Search Property"
  /\ response[Len(response) - Len(responses[3].text) - 1] = "Generate Report"

\* The step runs the handler of a generate_report task.
ReportStep ==
  /\ pc \in {"Planned", "Executing"}
  /\ Len(invoked') = Len(invoked) + 1
  /\ invoked'[Len(invoked')] = "_handle_report"

\* C12: a generate_report task that follows a search_property task, in the
\* same turn or in an earlier one, builds its report from the results of that
\* most recent search: if the report builder is invoked, its argument is the
\* first 10 of the rows that search returned, and it is invoked whenever that
\* search returned a row.
C12_ReportFromLatestSearch ==
  [][(ReportStep /\ found.any) =>
       /\ built' # built => built' = Append(built, Take(found.value, ShownProperties))
       /\ found.value # <<>> => built' # built]_vars

SearchFirst ==
  <<"No recent property searches found. Please search for properties first.">>

\* The session holds no last_search_results, or an empty list.
NothingStored ==
  \/ full_key("last_search_results") \notin DOMAIN shortterm
  \/ shortterm[full_key("last_search_results")] = <<>>

\* C13: when last_search_results is absent or empty, the generate_report
\* handler returns the 'search first' message without invoking the report
\* builder and without raising, the turn goes on, a turn made of that task
\* alone never fails, and a turn that returns carries the message in its
\* response (as the whole response of a simple query, inside its block of a
\* complex one).
C13_NoSearchNoReport ==
  /\ [][(ReportStep /\ NothingStored) =>
          /\ pc' = "Executing"
          /\ built' = built
          /\ idx' = idx + 1
          /\ responses' = Append(responses, [agent |-> "generate_report",
                                             text |-> SearchFirst])
          /\ shortterm' = shortterm
          /\ prefs' = prefs]_vars
  /\ []((pc = "Failed" /\ query_type = "simple-query" /\ Len(tasks) = 1
           /\ tasks[1].agent = "generate_report") => built # <<>>)
  /\ [](pc = "Responded" =>
          \A i \in 1..Len(responses) :
            (responses[i].agent = "generate_report" /\ responses[i].text = SearchFirst) =>
              /\ SearchFirst[1] \in Range(response)
              /\ query_type = "simple-query" => response = SearchFirst)

\* A report was asked for after a search that found nothing: the turn
\* returned the message and the builder was not invoked.
C13_Witness ==
  /\ pc = "Responded"
  /\ query_type = "complex-query"
  /\ Len(tasks) = 2
  /\ tasks[2].agent = "generate_report"
  /\ found = [any |-> TRUE, value |-> <<>>]
  /\ built = <<>>
  /\ responses[2].text = SearchFirst
  /\ SearchFirst[1] \in Range(response)

\* The step runs the handler of a save_preference task, and the handler
\* returns.
SaveStep ==
  /\ pc \in {"Planned", "Executing"}
  /\ Len(invoked') = Len(invoked) + 1
  /\ invoked'[Len(invoked')] = "_handle_save_preference"
  /\ pc' = "Executing"

\* The preference key a param is saved under.
PreferenceKey(field) ==
  IF field = "max_price" THEN "budget"
  ELSE IF field = "location" THEN "preferred_location"
  ELSE "preferred_rooms"

\* The preference keys of the fields present and non-null in params.
PresentKeys(params) ==
  {PreferenceKey(f) : f \in {g \in {"max_price", "location", "num_rooms"} :
                                g \in DOMAIN params /\ params[g] # JNull}}

\* C14: save_preference writes exactly the fields among max_price, location
\* and num_rooms that are present and non-null in its params, under the keys
\* budget, preferred_location and preferred_rooms, writes no other key, and
\* returns the same confirmation whatever number of fields it wrote.
C14_SavesPresentNonNull ==
  [][SaveStep =>
       LET params == tasks[idx + 1].params
       IN  /\ DOMAIN prefs' = DOMAIN prefs \cup PresentKeys(params)
           /\ \A k \in DOMAIN prefs \ PresentKeys(params) : prefs'[k] = prefs[k]
           /\ ("location" \in DOMAIN params /\ params["location"] # JNull) =>
                 prefs'["preferred_location"] = params["location"]
           /\ responses'[Len(responses')].text =
                 <<"Preferences saved! I'll remember them for future searches.">>]_vars

(* ---------------------------------------------------------------------- *)
(* Memory: the preference store and the Episodic log                       *)
(* ---------------------------------------------------------------------- *)
MaxSaves == 3

PreferenceKeys == {"budget", "preferred_location"}

PreferenceValues == {"A", "B", ""}

PrefRet(raised, fnd, value, map) ==
  [raised |-> raised, found |-> fnd, value |-> value, map |-> map]

\* Memory(user_id) on a store that holds no row of this user; `hist` is the
\* ghost list of the saves that were committed.
PrefsInit ==
  /\ IdleTurn
  /\ episodic = <<>> /\ shortterm = EmptyMap
  /\ redis_available = FALSE /\ redis_client = EmptyMap
  /\ prefs = EmptyMap
  /\ hist = <<>>
  /\ chatbots = EmptyMap
  /\ pc = "__init__"
  /\ arg = [op |-> "", key |-> "", value |-> ""]
  /\ ret = PrefRet(FALSE, FALSE, "", EmptyMap)

\* save_preference(key, value): the row is upserted and committed, or the
\* connection fails and nothing is written.
SavePreference ==
  /\ Len(hist) < MaxSaves
  /\ \E key \in PreferenceKeys, value \in PreferenceValues, connected \in BOOLEAN :
       /\ arg' = [op |-> "save_preference", key |-> key, value |-> value]
       /\ IF connected
          THEN /\ prefs' = save_preference(prefs, key, value)
               /\ hist' = Append(hist, [key |-> key, value |-> value])
               /\ ret' = PrefRet(FALSE, FALSE, "", EmptyMap)
          ELSE /\ ret' = PrefRet(TRUE, FALSE, "", EmptyMap)
               /\ UNCHANGED <<prefs, hist>>
  /\ pc' = "save_preference"
  /\ UNCHANGED <<episodic, shortterm, redis_available, redis_client, turn, chatbots>>

GetPreference ==
  /\ \E key \in PreferenceKeys, connected \in BOOLEAN :
       /\ arg' = [op |-> "get_preference", key |-> key, value |-> ""]
       /\ ret' = IF connected
                 THEN PrefRet(FALSE, get_preference(prefs, key).found,
                              get_preference(prefs, key).value, EmptyMap)
                 ELSE PrefRet(TRUE, FALSE, "", EmptyMap)
  /\ pc' = "get_preference"
  /\ UNCHANGED <<prefs, hist, episodic, shortterm, redis_available, redis_client, turn, chatbots>>

GetAllPreferences ==
  /\ \E connected \in BOOLEAN :
       /\ arg' = [op |-> "get_all_preferences", key |-> "", value |-> ""]
       /\ ret' = IF connected
                 THEN PrefRet(FALSE, FALSE, "", get_all_preferences(prefs))
                 ELSE PrefRet(TRUE, FALSE, "", EmptyMap)
  /\ pc' = "get_all_preferences"
  /\ UNCHANGED <<prefs, hist, episodic, shortterm, redis_available, redis_client, turn, chatbots>>

PrefsNext == SavePreference \/ GetPreference \/ GetAllPreferences

SpecPrefs == PrefsInit /\ [][PrefsNext]_vars

MaxLog == 3

Roles == {"user", "assistant"}

Contents == {<<"a">>, <<"b">>}

\* The values of last_n: omitted, or a number from 0 to past the longest log.
LastNs == {[given |-> FALSE, n |-> 0]} \cup [given : {TRUE}, n : 0..(MaxLog + 1)]

\* Memory(user_id): an empty log; `hist` is the ghost copy of the log as it
\* was before the last call.
EpisodicInit ==
  /\ IdleTurn
  /\ episodic = <<>> /\ shortterm = EmptyMap /\ prefs = EmptyMap
  /\ redis_available = FALSE /\ redis_client = EmptyMap
  /\ hist = <<>>
  /\ chatbots = EmptyMap
  /\ pc = "__init__"
  /\ arg = [role |-> "", content |-> <<>>, last_n |-> [given |-> FALSE, n |-> 0]]
  /\ ret = <<>>

AddMessage ==
  /\ Len(episodic) < MaxLog
  /\ \E role \in Roles, content \in Contents :
       /\ episodic' = add_message(episodic, role, content)
       /\ arg' = [role |-> role, content |-> content,
                  last_n |-> [given |-> FALSE, n |-> 0]]
  /\ hist' = episodic
  /\ pc' = "add_message"
  /\ UNCHANGED <<ret, shortterm, prefs, redis_available, redis_client, turn, chatbots>>

GetConversationHistory ==
  /\ \E last_n \in LastNs :
       /\ ret' = get_conversation_history(episodic, last_n)
       /\ arg' = [role |-> "", content |-> <<>>, last_n |-> last_n]
  /\ hist' = episodic
  /\ pc' = "get_conversation_history"
  /\ UNCHANGED <<episodic, shortterm, prefs, redis_available, redis_client, turn, chatbots>>

ClearConversation ==
  /\ episodic' = clear_conversation(episodic)
  /\ arg' = [role |-> "", content |-> <<>>, last_n |-> [given |-> FALSE, n |-> 0]]
  /\ hist' = episodic
  /\ pc' = "clear_conversation"
  /\ UNCHANGED <<ret, shortterm, prefs, redis_available, redis_client, turn, chatbots>>

EpisodicNext == AddMessage \/ GetConversationHistory \/ ClearConversation

SpecEpisodic == EpisodicInit /\ [][EpisodicNext]_vars

(* ---------------------------------------------------------------------- *)
(* Properties of the session store                                         *)
(* ---------------------------------------------------------------------- *)
\* C15: for every key and JSON value, set_context(key, value, ttl) followed
\* immediately by get_context(key) on the same Memory returns a value equal to
\* value (and does not raise), with the external cache in use and with the
\* in-process fallback map in use.
C15_SetThenGetRoundTrip ==
  [][(pc = "set_context" /\ pc' = "get_context" /\ arg'.key = arg.key) =>
       /\ ~ret'.raised
       /\ ret'.value = arg.value
       /\ (arg.value # PyNone => ret'.found)]_vars

\* With the cache in use, a list of two items (a null and a string) was read
\* back right after it was set.
C15_Witness ==
  /\ pc = "get_context"
  /\ redis_available
  /\ ret.found
  /\ ret.value = PyList(<<PyNone, PyScalar("str", "v")>>)
  /\ hist[arg.key].state = "set"
  /\ hist[arg.key].value = ret.value
  /\ hist[arg.key].left = MaxTtl

SavedKeys(h) == {h[i].key : i \in 1..Len(h)}

\* The value of the last save of `key` listed in h.
LastSaved(h, key) ==
  h[CHOOSE i \in 1..Len(h) : h[i].key = key /\ \A j \in (i+1)..Len(h) : h[j].key # key].value

\* C17: after any sequence of save_preference calls, get_preference(key)
\* returns the value of the last save of that key, not-found if there was
\* none, and get_all_preferences holds exactly one entry per key ever saved,
\* with the value saved last.
C17_LastSaveWins ==
  /\ (pc = "get_preference" /\ ~ret.raised) =>
       IF arg.key \in SavedKeys(hist)
       THEN ret.found /\ ret.value = LastSaved(hist, arg.key)
       ELSE ~ret.found
  /\ (pc = "get_all_preferences" /\ ~ret.raised) =>
       /\ DOMAIN ret.map = SavedKeys(hist)
       /\ \A key \in SavedKeys(hist) : ret.map[key] = LastSaved(hist, key)

\* A key saved twice with different values, then another key, then read: the
\* second value came back.
C17_Witness ==
  /\ pc = "get_preference"
  /\ ~ret.raised
  /\ Len(hist) = 3
  /\ hist[1].key = arg.key /\ hist[2].key = arg.key /\ hist[3].key # arg.key
  /\ hist[1].value # hist[2].value
  /\ ret.found
  /\ ret.value = hist[2].value

(* ---------------------------------------------------------------------- *)
(* Properties of the Episodic log                                          *)
(* ---------------------------------------------------------------------- *)
\* The k most recent turns of the log, oldest first.
MostRecent(log, k) == [i \in 1..k |-> log[Len(log) - k + i]]

\* C18: for every log and every n >= 0, get_conversation_history(n) returns
\* the min(n, length) most recent turns in chronological order, and the whole
\* log when n is omitted; clear_conversation leaves the log empty; add_message
\* appends at the end and leaves the earlier turns unchanged.
C18_HistoryWindow ==
  /\ pc = "get_conversation_history" =>
       /\ episodic = hist
       /\ IF arg.last_n.given
          THEN ret = MostRecent(episodic,
                                IF arg.last_n.n < Len(episodic) THEN arg.last_n.n
                                ELSE Len(episodic))
          ELSE ret = episodic
  /\ pc = "clear_conversation" => episodic = <<>>
  /\ pc = "add_message" =>
       /\ Len(episodic) = Len(hist) + 1
       /\ \A i \in 1..Len(hist) : episodic[i] = hist[i]
       /\ episodic[Len(episodic)] = [role |-> arg.role, content |-> arg.content]

(* ---------------------------------------------------------------------- *)
(* Properties of the turn's state machine                                  *)
(* ---------------------------------------------------------------------- *)
Rank(p) ==
  IF p = "Idle" THEN 0
  ELSE IF p = "Start" THEN 1
  ELSE IF p = "Classified" THEN 2
  ELSE IF p = "Planned" THEN 3
  ELSE IF p = "Executing" THEN 4
  ELSE 5

\* C19: every turn moves through Start, Classified, Planned, Executing(1..n),
\* Responded in that order with no backward step (a new turn begins only after
\* the last has ended), and every turn for which the completion service gave
\* a reply goes on to Responded: no step of it ends the turn in failure,
\* whatever the reply holds.
C19_TurnReachesResponded ==
  [][/\ IF pc' = "Start" THEN pc \in {"Idle", "Responded", "Failed"}
        ELSE /\ Rank(pc') >= Rank(pc)
             /\ Rank(pc') <= Rank(pc) + 1 \/ pc' \in {"Responded", "Failed"}
             /\ idx' >= idx
     /\ (pc' = "Failed" /\ pc # "Failed") => llm'.status # "ok"]_vars

\* C20: in every turn the user's input is appended to the Episodic log before
\* classification and before any handler runs (at Start the log already ends
\* with it, and no completion call or handler call has been made), and the log
\* still ends with that user turn at every later step short of the response,
\* also after the turn has failed.
C20_UserTurnLoggedFirst ==
  /\ pc \in {"Start", "Classified", "Planned", "Executing", "Failed"} =>
       /\ Len(episodic) >= 1
       /\ episodic[Len(episodic)] = UserTurn(user_input)
  /\ pc = "Start" => (llmCalls = 0 /\ invoked = <<>>)

\* The second turn failed in a handler after the first had been answered: the
\* log ends with the second question.
C20_Witness ==
  /\ pc = "Failed"
  /\ turns = 2
  /\ invoked # <<>>
  /\ Len(episodic) = 3
  /\ episodic[2].role = "assistant"
  /\ episodic[3] = UserTurn(InputOf(2))

(* ---------------------------------------------------------------------- *)
(* _execute_task as a function of the task and of what Memory holds        *)
(* ---------------------------------------------------------------------- *)
\* Agent names of a task: the six of the enumeration, and names outside it.
TaskAgents == allowed_intents \cup {"bogus", "search"}

TaskParams ==
  {EmptyMap,
   [k \in {"location", "max_price"} |-> "v"],
   [k \in {"max_price", "num_rooms"} |-> IF k = "max_price" THEN JZero ELSE "v"]}

\* What the session and the preferences hold when the task is dispatched.
TaskSessions == {EmptyMap, set_context(EmptyMap, "last_search_results", <<"p1">>)}

TaskPreferences == {EmptyMap, save_preference(EmptyMap, "budget", "'v'")}

NoOutcome == Ok("", <<>>, EmptyMap, EmptyMap)

\* `hist` keeps what Memory held before the call.
TaskInit ==
  /\ IdleTurn
  /\ episodic = <<>>
  /\ redis_available = FALSE /\ redis_client = EmptyMap /\ chatbots = EmptyMap
  /\ shortterm \in TaskSessions
  /\ prefs \in TaskPreferences
  /\ hist = [shortterm |-> shortterm, prefs |-> prefs]
  /\ pc = "call"
  /\ arg \in [agent : TaskAgents, params : TaskParams]
  /\ ret = NoOutcome

\* self._execute_task(task, user_input)
TaskCall ==
  /\ pc = "call"
  /\ pc' = "returned"
  /\ \E out \in _execute_task(arg, user_input, shortterm, prefs) :
       /\ ret' = out
       /\ invoked' = IF out.handler = "" THEN invoked ELSE Append(invoked, out.handler)
       /\ shortterm' = out.shortterm
       /\ prefs' = out.prefs
  /\ UNCHANGED <<arg, hist, episodic, redis_available, redis_client, chatbots,
                 user_input, llm, result, query_type, intents, slots, tasks, idx,
                 responses, response, llmCalls, error, turns, found, built, saves>>

SpecTask == TaskInit /\ [][TaskCall]_vars

(* ---------------------------------------------------------------------- *)
(* StructuredAgent._build_query as a function of the filter map            *)
(* ---------------------------------------------------------------------- *)
MaxFilterKeys == 2

FilterKeys == {"location", "num_rooms", "max_price", "min_price", "property_size_sqft"}

\* Values of a filter: null, the number 0, the empty string, and a value that
\* is none of these.
FilterValues == {JNull, JZero, "", "v"}

FilterMaps == PartialMaps(FilterKeys, FilterValues, MaxFilterKeys)

\* The condition each filter adds to the WHERE clause.
Clause(key) ==
  CASE key = "location" -> " AND location ILIKE %s"
    [] key = "num_rooms" -> " AND num_rooms = %s"
    [] key = "max_price" -> " AND price <= %s"
    [] key = "min_price" -> " AND price >= %s"
    [] key = "property_size_sqft" -> " AND property_size_sqft >= %s"

\* The parameter bound to the condition: f"%{value}%" for the location, the
\* value itself for the others.
Bound(key, value) == IF key = "location" THEN <<"%", value, "%">> ELSE <<value>>

\* The order in which _build_query tests the filters.
FilterOrder == <<"location", "num_rooms", "max_price", "min_price", "property_size_sqft">>

\* `if filters.get(key):` for each filter in turn, then the ordering and the
\* limit.
_build_query(filters) ==
  LET kept == SelectSeq(FilterOrder, LAMBDA key : Truthy(Get(filters, key)))
  IN  [query |-> <<"SELECT * FROM properties WHERE 1=1">>
                   \o [i \in 1..Len(kept) |-> Clause(kept[i])]
                   \o <<" ORDER BY price ASC LIMIT 10">>,
       params |-> [i \in 1..Len(kept) |-> Bound(kept[i], filters[kept[i]])]]

NoQuery == [query |-> <<>>, params |-> <<>>]

QueryInit ==
  /\ Idle
  /\ pc = "call"
  /\ arg \in FilterMaps
  /\ ret = NoQuery

\* query, params = self._build_query(filters)
QueryCall ==
  /\ pc = "call"
  /\ pc' = "returned"
  /\ ret' = _build_query(arg)
  /\ UNCHANGED <<arg, pipeline, chatbots>>

SpecQuery == QueryInit /\ [][QueryCall]_vars

(* ---------------------------------------------------------------------- *)
(* The API: a registry of chatbots, one per user id, over one cache and    *)
(* one preference table.  `chatbots` maps a user id to its chatbot: the    *)
(* number of the request that constructed it, and the log and the          *)
(* fallback dict of its Memory.  `redis_client` is the shared cache,       *)
(* `prefs` the shared table, keyed by (user_id, memory_key); `turns`       *)
(* counts the requests and calls served.                                   *)
(* ---------------------------------------------------------------------- *)
MaxRequests == 4

\* User ids are texts, cut at their colons: "a" and "a:b".
Users == {<<"a">>, <<"a", ":", "b">>}

\* f"session:{self.user_id}:{key}"
full_key_of(uid, key) == <<"session", ":">> \o uid \o <<":", key>>

\* f"session:{self.user_id}:*"
pattern(uid) == <<"session", ":">> \o uid \o <<":", "*">>

\* Glob matching of the cache server: "*" stands for any run of characters,
\* colons included.
RECURSIVE Glob(_, _)
Glob(pat, name) ==
  IF pat = <<>> THEN name = <<>>
  ELSE IF Head(pat) = "*"
  THEN \E i \in 0..Len(name) : Glob(Tail(pat), SubSeq(name, i + 1, Len(name)))
  ELSE name # <<>> /\ Head(name) = Head(pat) /\ Glob(Tail(pat), Tail(name))

\* KEYS pattern
keys_matching(rc, pat) == {name \in DOMAIN rc : Glob(pat, name)}

\* The rows a search stores, and the one preference a turn saves.
Rows == PyList(<<PyScalar("str", "v")>>)

SessionTtl == 3600

\* RealEstateChatbot(user_id), constructed while serving request n.
NewChatbot(n) == [id |-> n, episodic |-> <<>>, shortterm |-> EmptyMap]

\* Memory.set_context of the chatbot `bot` of user `uid`: [bot, rc] after it.
set_context_of(bot, rc, uid, key, value) ==
  IF redis_available
  THEN [bot |-> bot, rc |-> setex(rc, full_key_of(uid, key), SessionTtl, json_dumps(value))]
  ELSE [bot |-> [bot EXCEPT !.shortterm = Put(bot.shortterm, full_key_of(uid, key), value)],
        rc |-> rc]

\* Memory.get_context of the chatbot `bot` of user `uid`: the value, or None.
get_context_of(bot, rc, uid, key) ==
  IF redis_available
  THEN (IF full_key_of(uid, key) \in DOMAIN rc
        THEN json_loads(rc[full_key_of(uid, key)].data).value
        ELSE PyNone)
  ELSE (IF full_key_of(uid, key) \in DOMAIN bot.shortterm
        THEN bot.shortterm[full_key_of(uid, key)]
        ELSE PyNone)

\* Memory.clear_session of the chatbot `bot` of user `uid`.
clear_session_of(bot, rc, uid) ==
  IF redis_available
  THEN [bot |-> bot,
        rc |-> IF keys_matching(rc, pattern(uid)) # {}
               THEN delete(rc, keys_matching(rc, pattern(uid)))
               ELSE rc]
  ELSE [bot |-> [bot EXCEPT !.shortterm = EmptyMap], rc |-> rc]

\* Memory.save_preference for user `uid`: the upsert on (user_id, memory_key).
save_preference_of(pf, uid, key, value) == Put(pf, <<uid, key>>, value)

\* Memory.get_all_preferences for user `uid`: the rows WHERE user_id = uid.
get_all_preferences_of(pf, uid) ==
  [key \in {k[2] : k \in {x \in DOMAIN pf : x[1] = uid}} |-> pf[<<uid, key>>]]

\* What a turn does to Memory: the user turn is logged; a search may store
\* its rows, a save_preference task may save a field; then the turn either
\* raises or logs the assistant turn.
TurnEffects == [search : BOOLEAN, save : BOOLEAN, raised : BOOLEAN]

\* chatbot.chat(message) on the chatbot `bot` of user `uid`.
chat_of(bot, rc, pf, uid, effect) ==
  LET logged == [bot EXCEPT !.episodic = add_message(bot.episodic, "user", <<"message">>)]
      stored == IF effect.search
                THEN set_context_of(logged, rc, uid, "last_search_results", Rows)
                ELSE [bot |-> logged, rc |-> rc]
      saved == IF effect.save THEN save_preference_of(pf, uid, "budget", "'v'") ELSE pf
  IN  [bot |-> IF effect.raised THEN stored.bot
               ELSE [stored.bot EXCEPT !.episodic =
                       add_message(stored.bot.episodic, "assistant", <<"response">>)],
       rc |-> stored.rc,
       pf |-> saved]

NoRequest == [request |-> "", user_id |-> <<>>]

Response(status, detail) ==
  [status |-> status, detail |-> detail, preferences |-> EmptyMap]

\* Everything a request leaves alone in any case.
locals == <<pc, user_input, llm, result, query_type, intents, slots, tasks, idx,
            responses, response, invoked, llmCalls, error, found, built, saves,
            episodic, shortterm, hist, redis_available>>

\* The server has started: the registry is empty; the cache answers, or not.
ApiInit ==
  /\ IdleTurn
  /\ episodic = <<>> /\ shortterm = EmptyMap /\ hist = <<>>
  /\ redis_available \in BOOLEAN
  /\ redis_client = EmptyMap
  /\ prefs = EmptyMap
  /\ chatbots = EmptyMap
  /\ pc = "serving"
  /\ arg = NoRequest
  /\ ret = Response("", "")

\* ChatRequest with the chatbot constructed anew for every request.
ChatRequest_AlwaysConstruct ==
  /\ turns < MaxRequests
  /\ turns' = turns + 1
  /\ \E uid \in Users, constructed \in BOOLEAN, effect \in TurnEffects :
       /\ arg' = [request |-> "chat", user_id |-> uid]
       /\ IF ~constructed
          THEN /\ ret' = Response("500", "Failed to initialize chatbot")
               /\ UNCHANGED <<chatbots, redis_client, prefs>>
          ELSE LET after == chat_of(NewChatbot(turns + 1), redis_client, prefs, uid, effect)
               IN  /\ chatbots' = Put(chatbots, uid, after.bot)
                   /\ redis_client' = after.rc
                   /\ prefs' = after.pf
                   /\ ret' = IF effect.raised
                             THEN Response("500", "Chat processing failed")
                             ELSE Response("200", "")
  /\ UNCHANGED locals

\* POST /api/chat
ChatRequest ==
  /\ turns < MaxRequests
  /\ turns' = turns + 1
  /\ \E uid \in Users, constructed \in BOOLEAN, effect \in TurnEffects :
       /\ arg' = [request |-> "chat", user_id |-> uid]
       /\ IF uid \notin DOMAIN chatbots /\ ~constructed
          THEN /\ ret' = Response("500", "Failed to initialize chatbot")
               /\ UNCHANGED <<chatbots, redis_client, prefs>>
          ELSE LET bot == IF uid \in DOMAIN chatbots THEN chatbots[uid]
                          ELSE NewChatbot(turns + 1)
                   after == chat_of(bot, redis_client, prefs, uid, effect)
               IN  /\ chatbots' = Put(chatbots, uid, after.bot)
                   /\ redis_client' = after.rc
                   /\ prefs' = after.pf
                   /\ ret' = IF effect.raised
                             THEN Response("500", "Chat processing failed")
                             ELSE Response("200", "")
  /\ UNCHANGED locals

\* ClearHistoryRequest that clears the whole session of the user: the log and
\* the session entries, and drops the chatbot from the registry.
ClearHistoryRequest_DropsChatbot ==
  /\ turns < MaxRequests
  /\ turns' = turns + 1
  /\ \E uid \in Users :
       /\ arg' = [request |-> "clear_history", user_id |-> uid]
       /\ IF uid \in DOMAIN chatbots
          THEN /\ chatbots' = [u \in DOMAIN chatbots \ {uid} |-> chatbots[u]]
               /\ redis_client' = clear_session_of(chatbots[uid], redis_client, uid).rc
               /\ ret' = Response("200", "success")
          ELSE /\ ret' = Response("404", "No active session for user")
               /\ UNCHANGED <<chatbots, redis_client>>
  /\ UNCHANGED <<prefs, locals>>

\* DELETE /api/chat/{user_id}/history
ClearHistoryRequest ==
  /\ turns < MaxRequests
  /\ turns' = turns + 1
  /\ \E uid \in Users :
       /\ arg' = [request |-> "clear_history", user_id |-> uid]
       /\ IF uid \in DOMAIN chatbots
          THEN /\ chatbots' = [chatbots EXCEPT ![uid].episodic =
                                 clear_conversation(chatbots[uid].episodic)]
               /\ ret' = Response("200", "success")
          ELSE /\ ret' = Response("404", "No active session for user")
               /\ UNCHANGED chatbots
  /\ UNCHANGED <<redis_client, prefs, locals>>

\* GET /api/chat/{user_id}/preferences: for a user with no chatbot a temporary
\* one is constructed and not registered; a failure of the construction or
\* of the database is not caught.
GetPreferencesRequest ==
  /\ turns < MaxRequests
  /\ turns' = turns + 1
  /\ \E uid \in Users, constructed \in BOOLEAN, connected \in BOOLEAN :
       /\ arg' = [request |-> "get_preferences", user_id |-> uid]
       /\ ret' = IF (uid \notin DOMAIN chatbots /\ ~constructed) \/ ~connected
                 THEN Response("500", "Internal Server Error")
                 ELSE [Response("200", "") EXCEPT
                         !.preferences = get_all_preferences_of(prefs, uid)]
  /\ UNCHANGED <<chatbots, redis_client, prefs, locals>>

\* chatbots[uid].memory.clear_session()
ClearSessionCall ==
  /\ turns < MaxRequests
  /\ turns' = turns + 1
  /\ \E uid \in DOMAIN chatbots :
       LET after == clear_session_of(chatbots[uid], redis_client, uid)
       IN  /\ arg' = [request |-> "clear_session", user_id |-> uid]
           /\ chatbots' = [chatbots EXCEPT ![uid] = after.bot]
           /\ redis_client' = after.rc
           /\ ret' = Response("", "")
  /\ UNCHANGED <<prefs, locals>>

ApiNext ==
  ChatRequest \/ ClearHistoryRequest \/ GetPreferencesRequest \/ ClearSessionCall

SpecApi == ApiInit /\ [][ApiNext]_vars

(* ---------------------------------------------------------------------- *)
(* Properties of the dispatcher                                            *)
(* ---------------------------------------------------------------------- *)
\* C22: a simple query with exactly one task invokes the handler matching
\* the task's agent, that one only and at most once while the turn runs,
\* exactly once when the turn returns, and the response is that handler's
\* text unchanged, with no label and no separator.
C22_SimpleQueryOneHandler ==
  (query_type = "simple-query" /\ Len(tasks) = 1) =>
    /\ Len(invoked) <= 1
    /\ \A i \in 1..Len(invoked) : invoked[i] = HandlerOf(tasks[1].agent)
    /\ pc \in {"Executing", "Responded"} => Len(invoked) = 1
    /\ pc = "Responded" =>
         /\ Len(responses) = 1
         /\ response = responses[1].text
         /\ "**" \notin Range(response)
         /\ "\n\n---\n\n" \notin Range(response)

\* A simple search was answered with the listing text of the search handler.
C22_Witness ==
  /\ pc = "Responded"
  /\ query_type = "simple-query"
  /\ tasks[1].agent = "search_property"
  /\ invoked = <<"_handle_search">>
  /\ response[1] = "Found properties:"
  /\ Len(response) = 3

\* C24: after any search, what the session reads back under
\* last_search_results (nothing, when the key is absent) is the result set
\* of the most recent search that returned, never that of an older one.
C24_StoredIsLatestSearch ==
  found.any => get_context(shortterm, "last_search_results").value = found.value

\* A step of a save_preference task in which a call of memory.save_preference
\* found the durable store unreachable.
SaveFailsStep ==
  /\ pc \in {"Planned", "Executing"}
  /\ saves' # saves
  /\ saves'[Len(saves')] = "OperationalError"

Confirmation == <<"Preferences saved! I'll remember them for future searches.">>

\* C25: when the durable store is unreachable during a save_preference task,
\* the turn ends as a failure (the exception leaves chat, no response and no
\* assistant turn), the confirmation is not returned, and no preference is
\* recorded: the stored preferences are those from before the task.
C25_FailedSaveRecordsNothing ==
  [][SaveFailsStep =>
       /\ pc' = "Failed" /\ error' = "OperationalError"
       /\ response' = <<>> /\ responses' = responses /\ episodic' = episodic
       /\ prefs' = prefs]_vars

\* C25, amended: when a write of a save_preference task finds the durable
\* store unreachable, the turn ends as a failure, the confirmation is not
\* returned, and neither the field of that write nor any later field is
\* recorded; the fields written before it in the same task stay recorded.
C25_FailedSaveKeepsEarlierWrites ==
  [][SaveFailsStep =>
       /\ pc' = "Failed" /\ error' = "OperationalError"
       /\ response' = <<>> /\ responses' = responses /\ episodic' = episodic
       /\ LET writes == PreferenceWrites(tasks[idx + 1].params)
              done == Len(saves') - Len(saves) - 1
          IN  /\ done < Len(writes)
              /\ prefs' = ApplyWrites(prefs, SubSeq(writes, 1, done))
              /\ \A i \in (done + 1)..Len(writes) :
                   (\A j \in 1..done : writes[j].key # writes[i].key) =>
                     get_preference(prefs', writes[i].key)
                       = get_preference(prefs, writes[i].key)]_vars

\* A turn failed at the second write of a save_preference task: the budget is
\* recorded, the preferred location is not, and no response was given.
C25_Witness ==
  /\ pc = "Failed"
  /\ saves = <<"saved", "OperationalError">>
  /\ "budget" \in DOMAIN prefs
  /\ "preferred_location" \notin DOMAIN prefs
  /\ response = <<>>
  /\ episodic[Len(episodic)].role = "user"

\* A step of a complex query in which the handler of task idx + 1 raises.
HandlerRaisesStep ==
  /\ pc \in {"Planned", "Executing"}
  /\ query_type = "complex-query"
  /\ idx + 1 <= Len(tasks)
  /\ error' # ""

\* The preference keys the task may write.
WrittenKeys(task) ==
  IF task.agent = "save_preference"
  THEN {PreferenceWrites(task.params)[i].key : i \in 1..Len(PreferenceWrites(task.params))}
  ELSE {}

\* C28: in a complex query, when the handler of the k-th task raises, the
\* turn fails there: that handler is the last one invoked, the session
\* entries and the preferences written by tasks 1..k-1 are all still there
\* with their values, no assistant turn is appended, and nothing more is
\* invoked or written until the next turn begins.
C28_RaiseStopsTurnKeepsWrites ==
  /\ [][HandlerRaisesStep =>
          /\ pc' = "Failed"
          /\ idx' = idx
          /\ invoked' = Append(invoked, HandlerOf(tasks[idx + 1].agent))
          /\ episodic' = episodic /\ response' = <<>>
          /\ shortterm' = shortterm
          /\ \A key \in DOMAIN prefs :
               /\ key \in DOMAIN prefs'
               /\ key \notin WrittenKeys(tasks[idx + 1]) => prefs'[key] = prefs[key]]_vars
  /\ [][(pc = "Failed" /\ query_type = "complex-query") =>
          /\ shortterm' = shortterm /\ prefs' = prefs
          /\ invoked' \in {invoked, <<>>}
          /\ pc' = "Start"
          /\ episodic'[Len(episodic')].role = "user"]_vars
  /\ []((error # "" /\ query_type = "complex-query" /\ tasks # <<>>) =>
          /\ pc = "Failed"
          /\ Len(invoked) = idx + 1
          /\ episodic[Len(episodic)].role = "user")

\* A complex query failed in its second task, the report, after its first
\* task, the search, had stored its results: they are still stored.
C28_Witness ==
  /\ pc = "Failed"
  /\ query_type = "complex-query"
  /\ Len(tasks) = 2
  /\ idx = 1
  /\ invoked = <<"_handle_search", "_handle_report">>
  /\ turns = 1
  /\ found.any /\ found.value # <<>>
  /\ get_context(shortterm, "last_search_results").value = found.value
  /\ episodic[Len(episodic)].role = "user"

C23_UnknownAgentGenericAnswer ==
  (pc = "returned" /\ arg.agent \notin allowed_intents) =>
    /\ ~ret.raised
    /\ ret.text = <<"I'm not sure how to help with that.">>
    /\ ret.handler = "" /\ invoked = <<>>
    /\ ret.collab = NoCall
    /\ shortterm = hist.shortterm
    /\ prefs = hist.prefs

\* The task of an unknown agent was answered while the session held search
\* results and a preference was stored.
C23_Witness ==
  /\ pc = "returned"
  /\ arg.agent = "bogus"
  /\ arg.params # EmptyMap
  /\ ret.text = <<"I'm not sure how to help with that.">>
  /\ shortterm # EmptyMap
  /\ prefs # EmptyMap

\* C26: for every filter map, each of the five filter keys that is present
\* with a non-null value has its condition in the query built, a value of 0
\* or an empty string included.
C26_NoPresentFilterDropped ==
  pc = "returned" =>
    \A key \in FilterKeys :
      (key \in DOMAIN arg /\ arg[key] # JNull) => Clause(key) \in Range(ret.query)

(* ---------------------------------------------------------------------- *)
(* Properties of the API and of users sharing the cache and the table      *)
(* ---------------------------------------------------------------------- *)
\* The chatbot of a user, a new one when the user has none.
ChatbotOf(uid) == IF uid \in DOMAIN chatbots THEN chatbots[uid] ELSE NewChatbot(0)

\* What a user reads: its log, its session entry and its preferences.
View(uid) ==
  [log |-> ChatbotOf(uid).episodic,
   session |-> get_context_of(ChatbotOf(uid), redis_client, uid, "last_search_results"),
   preferences |-> get_all_preferences_of(prefs, uid)]

\* C21: no request or Memory call made for one user changes what another
\* user reads from its log, its session entry or its preferences.
C21_UsersAreIsolated ==
  [][\A uid \in Users : uid # arg'.user_id => View(uid)' = View(uid)]_vars

\* The step serves a request of the given kind.
Serves(request) == turns' = turns + 1 /\ arg'.request = request

IsPrefix(s, t) == Len(s) <= Len(t) /\ SubSeq(t, 1, Len(s)) = s

\* C29: the registry holds one chatbot per user id and no chatbot under two
\* ids; a registered chatbot is never replaced or removed, and its log is
\* only ever extended, except by a clear-history request of its user; only a
\* chat request registers, and only the chatbot of its user; a
\* get-preferences request leaves the registry as it is, and so does a chat
\* request whose chatbot construction fails.
C29_RegistryKeepsChatbots ==
  /\ [](\A u \in DOMAIN chatbots, w \in DOMAIN chatbots :
          u # w => chatbots[u].id # chatbots[w].id)
  /\ [][/\ \A u \in DOMAIN chatbots :
             /\ u \in DOMAIN chatbots'
             /\ chatbots'[u].id = chatbots[u].id
             /\ ~(Serves("clear_history") /\ arg'.user_id = u) =>
                  IsPrefix(chatbots[u].episodic, chatbots'[u].episodic)
        /\ DOMAIN chatbots' # DOMAIN chatbots =>
             /\ Serves("chat")
             /\ DOMAIN chatbots' = DOMAIN chatbots \cup {arg'.user_id}
        /\ Serves("get_preferences") => chatbots' = chatbots
        /\ (Serves("chat") /\ ret'.detail = "Failed to initialize chatbot") =>
             chatbots' = chatbots]_vars

\* A user's second chat request found the chatbot of its first and extended
\* its log; then the preferences of a user with no chatbot were read, and
\* that user still has none.
C29_Witness ==
  /\ arg.request = "get_preferences"
  /\ arg.user_id \notin DOMAIN chatbots
  /\ ret.status = "200"
  /\ \E u \in DOMAIN chatbots : chatbots[u].id = 1 /\ Len(chatbots[u].episodic) = 4

\* C30: a clear-history request for a registered user empties that user's
\* log and changes nothing else: not the user's fallback session entries or
\* registry entry, not the cache, not the preference table, no other user's
\* chatbot; for an unregistered user it answers 404 and changes nothing.
C30_ClearHistoryFrame ==
  [][Serves("clear_history") =>
       /\ redis_client' = redis_client
       /\ prefs' = prefs
       /\ DOMAIN chatbots' = DOMAIN chatbots
       /\ \A u \in DOMAIN chatbots : u # arg'.user_id => chatbots'[u] = chatbots[u]
       /\ IF arg'.user_id \in DOMAIN chatbots
          THEN /\ ret'.status = "200"
               /\ chatbots'[arg'.user_id] =
                    [chatbots[arg'.user_id] EXCEPT !.episodic = <<>>]
          ELSE /\ ret'.status = "404"
               /\ chatbots' = chatbots]_vars

\* The log of a user was cleared while that user had a session entry and a
\* preference and the other user had a log: all three are still there.
C30_Witness ==
  /\ arg.request = "clear_history"
  /\ ret.status = "200"
  /\ chatbots[arg.user_id].episodic = <<>>
  /\ View(arg.user_id).session = Rows
  /\ View(arg.user_id).preferences # EmptyMap
  /\ \E u \in DOMAIN chatbots : u # arg.user_id /\ chatbots[u].episodic # <<>>

====
